---------------------------- MODULE Spec2Model ----------------------------
(***************************************************************************)
(* FreshFold-Tissues: the order pricing, order commit and inventory state  *)
(* machine of src/pages/Orders.tsx, src/pages/Products.tsx, src/App.tsx    *)
(* and the vendor / request pages.                                         *)
(*                                                                         *)
(* The application state is the single AppState blob of src/types.ts held  *)
(* by App (useState) and changed only through updateState(updater).  Every *)
(* handler below is one updater applied to the whole state, as in the      *)
(* code.  JavaScript numbers are modelled as exact rationals <<n, d>>.     *)
(***************************************************************************)
EXTENDS Integers, Sequences, FiniteSets, TLC

VARIABLES products, vendors, requests, orders, cartSession, generated, now, alert,
          events, words, invoice

vars == <<products, vendors, requests, orders, cartSession, generated, now, alert,
          events, words, invoice>>

(***************************************************************************)
(* Bounds of the model.                                                    *)
(***************************************************************************)
MaxProducts == 2
MaxStock == 2
MaxOrders == 2
MaxVendors == 1
MaxRequests == 2
PricingStock == 3
\* number of user events explored after a saved session is reopened
PricingEvents == 2
\* the number of user events (handler calls) of a session that is explored
MaxEvents == 6
\* number of catalog edits explored while invoices are printed
InvoiceEvents == 1

(***************************************************************************)
(* JavaScript numbers as exact rationals: <<numerator, denominator>>,      *)
(* denominator > 0, in lowest terms.                                       *)
(***************************************************************************)
Abs(x) == IF x < 0 THEN -x ELSE x

RECURSIVE Gcd(_, _)
Gcd(a, b) == IF b = 0 THEN a ELSE Gcd(b, a % b)

Rat(n, d) ==
    LET g == Gcd(Abs(n), Abs(d))
        s == IF d < 0 THEN -1 ELSE 1
    IN  IF n = 0 THEN <<0, 1>> ELSE <<(s * n) \div g, (s * d) \div g>>

Num(k) == <<k, 1>>
Zero == Num(0)
RAdd(x, y) == Rat(x[1] * y[2] + y[1] * x[2], x[2] * y[2])
RSub(x, y) == Rat(x[1] * y[2] - y[1] * x[2], x[2] * y[2])
RMul(x, y) == Rat(x[1] * y[1], x[2] * y[2])
\* x / y for y # 0 (the code divides by rawSubtotal only when it is > 0)
RDiv(x, y) == Rat(x[1] * y[2], x[2] * y[1])
RGt(x, y) == x[1] * y[2] > y[1] * x[2]
RGe(x, y) == x[1] * y[2] >= y[1] * x[2]

(***************************************************************************)
(* Array helpers: Array.prototype.find / findIndex / filter / map.         *)
(***************************************************************************)
\* index of the first product with this id, 0 when there is none
FindProductIndex(prods, id) ==
    IF \E i \in 1..Len(prods) : prods[i].id = id
    THEN CHOOSE i \in 1..Len(prods) :
            /\ prods[i].id = id
            /\ \A j \in 1..(i - 1) : prods[j].id # id
    ELSE 0

HasProduct(prods, id) == FindProductIndex(prods, id) # 0

\* index of the first cart line of this product, 0 when there is none
FindLineIndex(items, id) ==
    IF \E i \in 1..Len(items) : items[i].productId = id
    THEN CHOOSE i \in 1..Len(items) :
            /\ items[i].productId = id
            /\ \A j \in 1..(i - 1) : items[j].productId # id
    ELSE 0

(***************************************************************************)
(* Text typed into a number input, as a sequence of characters, and the    *)
(* JavaScript conversions the handlers apply to it.                        *)
(***************************************************************************)
Digits == <<"0", "1", "2", "3", "4", "5", "6", "7", "8", "9">>

IsDigit(c) == \E k \in 1..10 : Digits[k] = c

DigitVal(c) == (CHOOSE k \in 1..10 : Digits[k] = c) - 1

DigitText(k) == <<Digits[k + 1]>>

\* a number that is NaN, or a value
NaN == [nan |-> TRUE, val |-> Zero]
Val(x) == [nan |-> FALSE, val |-> x]

RECURSIVE DigitRun(_, _)
\* the length of the run of digits of text starting at position i
DigitRun(text, i) ==
    IF i <= Len(text) /\ IsDigit(text[i]) THEN 1 + DigitRun(text, i + 1) ELSE 0

RECURSIVE DigitsValue(_, _, _)
\* the value of the n digits of text starting at position i
DigitsValue(text, i, n) ==
    IF n = 0 THEN 0
    ELSE DigitsValue(text, i, n - 1) * 10 + DigitVal(text[i + n - 1])

RECURSIVE Pow10(_)
Pow10(n) == IF n = 0 THEN 1 ELSE 10 * Pow10(n - 1)

\* parseInt(text): optional sign, then the leading digits; NaN without a digit
ParseInt(text) ==
    LET neg == Len(text) > 0 /\ text[1] = "-"
        start == IF neg THEN 2 ELSE 1
        n == DigitRun(text, start)
        v == DigitsValue(text, start, n)
    IN  IF n = 0 THEN NaN ELSE Val(Num(IF neg THEN -v ELSE v))

\* parseFloat(text): optional sign, digits, optional "." and digits; NaN
\* without a digit
ParseFloat(text) ==
    LET neg == Len(text) > 0 /\ text[1] = "-"
        start == IF neg THEN 2 ELSE 1
        n == DigitRun(text, start)
        dot == start + n <= Len(text) /\ text[start + n] = "."
        m == IF dot THEN DigitRun(text, start + n + 1) ELSE 0
        whole == DigitsValue(text, start, n)
        frac == DigitsValue(text, start + n + 1, m)
        mag == RAdd(Num(whole), Rat(frac, Pow10(m)))
    IN  IF n = 0 /\ m = 0 THEN NaN
        ELSE Val(IF neg THEN RSub(Zero, mag) ELSE mag)

(***************************************************************************)
(* The data model of src/types.ts.                                         *)
(***************************************************************************)
\* cartSession of a state that has none (INITIAL_STATE of src/App.tsx)
Undefined == [undefined |-> TRUE]

IsDefined(x) == "undefined" \notin DOMAIN x

\* the empty default cart session
EmptySession ==
    [items |-> <<>>, customerName |-> "", customerPhone |-> "",
     customerAddress |-> "", customerGstin |-> "",
     discountPercentage |-> Zero]

\* the whole application state, as the updaters see it
AppState ==
    [products |-> products, vendors |-> vendors, requests |-> requests,
     orders |-> orders, cartSession |-> cartSession]

\* the ids generateId(prefix) has handed out so far are <<prefix, 1..n>>
NewId(prefix) == <<prefix, generated[prefix] + 1>>

(***************************************************************************)
(* Pricing Engine: cartItems and totals of src/pages/Orders.tsx.           *)
(***************************************************************************)
\* one priced line: the cart line with the product's name, price and GST
PricedLine(item, product) ==
    LET subtotal == RMul(product.sellingPrice, Num(item.quantity))
        gstAmount == RDiv(RMul(subtotal, product.gstPercentage), Num(100))
    IN  [productId |-> item.productId, quantity |-> item.quantity,
         name |-> product.name, price |-> product.sellingPrice,
         gst |-> product.gstPercentage, subtotal |-> subtotal,
         total |-> RAdd(subtotal, gstAmount)]

RECURSIVE CartItemsUntilMissing(_, _, _)
\* CartItemsFrom giving up at the first line whose product is missing
CartItemsUntilMissing(cart, prods, i) ==
    IF i > Len(cart) THEN <<>>
    ELSE LET idx == FindProductIndex(prods, cart[i].productId)
         IN  IF idx = 0 THEN <<>>
             ELSE <<PricedLine(cart[i], prods[idx])>>
                     \o CartItemsUntilMissing(cart, prods, i + 1)

RECURSIVE CartItemsFrom(_, _, _)
\* cart.map(...).filter(Boolean): lines whose product is missing are dropped
CartItemsFrom(cart, prods, i) ==
    IF i > Len(cart) THEN <<>>
    ELSE LET idx == FindProductIndex(prods, cart[i].productId)
             rest == CartItemsFrom(cart, prods, i + 1)
         IN  IF idx = 0 THEN rest
             ELSE <<PricedLine(cart[i], prods[idx])>> \o rest

CartItems(cart, prods) == CartItemsFrom(cart, prods, 1)

RECURSIVE SumSubtotalWithGst(_, _)
\* the subtotal as the sum of the lines' totals, GST included
SumSubtotalWithGst(lines, n) ==
    IF n = 0 THEN Zero
    ELSE RAdd(SumSubtotalWithGst(lines, n - 1), lines[n].total)

RECURSIVE SumSubtotal(_, _)
\* cartItems.reduce((sum, item) => sum + item.subtotal, 0)
SumSubtotal(lines, n) ==
    IF n = 0 THEN Zero
    ELSE RAdd(SumSubtotal(lines, n - 1), lines[n].subtotal)

RECURSIVE SumGst(_, _)
\* cartItems.reduce((sum, item) => sum + (item.total - item.subtotal), 0)
SumGst(lines, n) ==
    IF n = 0 THEN Zero
    ELSE RAdd(SumGst(lines, n - 1), RSub(lines[n].total, lines[n].subtotal))

\* FinalGst charging the GST of the undiscounted lines
FinalGstUnscaled(rawGstTotal, taxableAmount, rawSubtotal) ==
    IF RGt(rawSubtotal, Zero) THEN rawGstTotal ELSE Zero

\* the proportional GST after discount
FinalGst(rawGstTotal, taxableAmount, rawSubtotal) ==
    IF RGt(rawSubtotal, Zero)
    THEN RMul(rawGstTotal, RDiv(taxableAmount, rawSubtotal))
    ELSE Zero

\* Totals with a grand total that forgets the discount
TotalsUndiscountedGrand(lines, discountPercentage) ==
    LET rawSubtotal == SumSubtotal(lines, Len(lines))
        discountAmount == RDiv(RMul(rawSubtotal, discountPercentage), Num(100))
        taxableAmount == RSub(rawSubtotal, discountAmount)
        rawGstTotal == SumGst(lines, Len(lines))
        finalGst == FinalGst(rawGstTotal, taxableAmount, rawSubtotal)
    IN  [amount |-> rawSubtotal, discountAmount |-> discountAmount,
         taxableAmount |-> taxableAmount, gst |-> finalGst,
         grandTotal |-> RAdd(rawSubtotal, finalGst)]

Totals(lines, discountPercentage) ==
    LET rawSubtotal == SumSubtotal(lines, Len(lines))
        discountAmount == RDiv(RMul(rawSubtotal, discountPercentage), Num(100))
        taxableAmount == RSub(rawSubtotal, discountAmount)
        rawGstTotal == SumGst(lines, Len(lines))
        finalGst == FinalGst(rawGstTotal, taxableAmount, rawSubtotal)
    IN  [amount |-> rawSubtotal, discountAmount |-> discountAmount,
         taxableAmount |-> taxableAmount, gst |-> finalGst,
         grandTotal |-> RAdd(taxableAmount, finalGst)]

(***************************************************************************)
(* numberToWords of src/pages/Orders.tsx. An amount is a number given by its *)
(* integer part and its fractional part, whole + frac with 0 <= frac < 1.    *)
(***************************************************************************)
units == <<"", "One", "Two", "Three", "Four", "Five", "Six", "Seven", "Eight",
           "Nine">>
teens == <<"Ten", "Eleven", "Twelve", "Thirteen", "Fourteen", "Fifteen",
           "Sixteen", "Seventeen", "Eighteen", "Nineteen">>
tens == <<"", "", "Twenty", "Thirty", "Forty", "Fifty", "Sixty", "Seventy",
          "Eighty", "Ninety">>

RECURSIVE inWords(_)
\* the arrays are indexed from 0 in the source
inWords(num) ==
    IF num = 0 THEN ""
    ELSE IF num < 10 THEN units[num + 1]
    ELSE IF num < 20 THEN teens[num - 10 + 1]
    ELSE IF num < 100
         THEN tens[(num \div 10) + 1]
                 \o (IF num % 10 # 0 THEN " " \o units[(num % 10) + 1] ELSE "")
    ELSE IF num < 1000
         THEN units[(num \div 100) + 1] \o " Hundred"
                 \o (IF num % 100 # 0 THEN " " \o inWords(num % 100) ELSE "")
    ELSE ""

\* numberToIndian without the 'Zero' of an empty result
numberToIndianEmptyZero(num) ==
    LET crore == num \div 10000000
        lakh == (num % 10000000) \div 100000
        thousand == (num % 100000) \div 1000
        hundredPlus == num % 1000
        r1 == IF crore # 0 THEN inWords(crore) \o " Crore" ELSE ""
        r2 == IF lakh # 0
              THEN r1 \o (IF r1 # "" THEN " " ELSE "") \o inWords(lakh)
                      \o " Lakh"
              ELSE r1
        r3 == IF thousand # 0
              THEN r2 \o (IF r2 # "" THEN " " ELSE "") \o inWords(thousand)
                      \o " Thousand"
              ELSE r2
    IN  IF hundredPlus # 0
        THEN r3 \o (IF r3 # "" THEN " " ELSE "") \o inWords(hundredPlus)
        ELSE r3

numberToIndian(num) ==
    LET crore == num \div 10000000
        lakh == (num % 10000000) \div 100000
        thousand == (num % 100000) \div 1000
        hundredPlus == num % 1000
        r1 == IF crore # 0 THEN inWords(crore) \o " Crore" ELSE ""
        r2 == IF lakh # 0
              THEN r1 \o (IF r1 # "" THEN " " ELSE "") \o inWords(lakh)
                      \o " Lakh"
              ELSE r1
        r3 == IF thousand # 0
              THEN r2 \o (IF r2 # "" THEN " " ELSE "") \o inWords(thousand)
                      \o " Thousand"
              ELSE r2
        result == IF hundredPlus # 0
                  THEN r3 \o (IF r3 # "" THEN " " ELSE "")
                          \o inWords(hundredPlus)
                  ELSE r3
    IN  IF result # "" THEN result ELSE "Zero"

\* Math.floor(amount)
Floor(amount) == amount.whole

\* Math.round((Math.abs(amount - rupees) + 1e-9) * 100): Math.round(x) is
\* floor(x + 1/2), and x is 100 frac + 1e-7
RoundedPaise(frac) ==
    LET p == 200 * frac[1] + frac[2]
        q == 2 * frac[2]
        k == p \div q
    IN  IF (k + 1) * q - p <= q \div 10000000 THEN k + 1 ELSE k

\* numberToWords joining the paise with a comma
numberToWordsCommaPaise(amount) ==
    LET rupees == Floor(amount)
        paise == RoundedPaise(amount.frac)
    IN  "Rupees " \o numberToIndian(rupees)
            \o (IF paise # 0 THEN ", " \o numberToIndian(paise) \o " Paise"
                ELSE "")
            \o " Only"

numberToWords(amount) ==
    LET rupees == Floor(amount)
        paise == RoundedPaise(amount.frac)
        rupeesWords == numberToIndian(rupees)
        paiseWords == IF paise # 0 THEN numberToIndian(paise) \o " Paise"
                      ELSE ""
    IN  "Rupees " \o rupeesWords
            \o (IF paise # 0 THEN " and " \o paiseWords ELSE "")
            \o " Only"

\* no amount put in words yet
NoWords == [amount |-> [whole |-> 0, frac |-> Zero], text |-> ""]

(***************************************************************************)
(* Inputs of the model: what the user types or picks.                      *)
(***************************************************************************)
StockLevels == 0..MaxStock

\* the name, selling price and GST % typed into the product form
CatalogueEntries ==
    {[name |-> "Facial Tissue", sellingPrice |-> Num(100),
      gstPercentage |-> Num(18)],
     [name |-> "Napkins", sellingPrice |-> Num(250),
      gstPercentage |-> Num(5)]}

\* a submitted product form (the number inputs are required and numeric)
ProductForms ==
    {[sku |-> "TR-001", name |-> e.name, category |-> "Other",
      unit |-> "packs", costPrice |-> Num(60),
      sellingPrice |-> e.sellingPrice, gstPercentage |-> e.gstPercentage,
      stockQuantity |-> q, minThreshold |-> 10] :
        e \in CatalogueEntries, q \in StockLevels}

\* the text of a quantity input
QtyTexts ==
    {DigitText(k) : k \in 0..(MaxStock + 1)}
        \cup {<<>>, <<"-", "1">>, <<"1", ".", "5">>}

\* the text of the discount input (its min and max attributes do not keep a
\* typed value out of onChange)
DiscountTexts == {<<>>, <<"1", "0">>, <<"1", "5", "0">>}

\* the text of the customer name input: empty, one space, a name
CustomerNames == {"", " ", "Asha Traders"}

\* a submitted vendor form
VendorForms ==
    {[name |-> "Asha Traders", gstin |-> "19ABCDE1234F1Z5",
      contact |-> "9876543210", address |-> "Kolkata"]}

\* the optional customer fields and the text typed into each
OptionalFieldTexts ==
    [customerPhone |-> {""},
     customerAddress |-> {""},
     customerGstin |-> {"", "19abcde1234f1z5"}]

\* String.prototype.toUpperCase on the GSTIN texts above and on the
\* customer name
ToUpperCase(text) ==
    IF text = "19abcde1234f1z5" THEN "19ABCDE1234F1Z5"
    ELSE IF text = "Asha Traders" THEN "ASHA TRADERS"
    ELSE text

\* the quantity and date of a submitted request form
RequestForms == {[quantity |-> 5, expectedDate |-> "2026-01-31"]}

\* every product id generateId('PRD') can hand out within the bounds
ProductIds == {<<"PRD", k>> : k \in 1..MaxProducts}

\* the last six digits of Date.now()
InvoiceModulus == 1000000

\* how far the clock has moved on, in milliseconds, when Create is pressed
\* again
ClockSteps == {1, InvoiceModulus}

(***************************************************************************)
(* A handler's outcome: the state its updater returns and the alert()      *)
(* message it shows ("" when it shows none).                               *)
(***************************************************************************)
Outcome(state, message) == [state |-> state, alert |-> message]

\* an alert: its text and the number it quotes (0 when it quotes none)
NoAlert == <<"", 0>>
MsgInvalidQty == <<"Please enter a valid quantity.", 0>>
MsgOutOfStock == <<"Product out of stock!", 0>>
MsgTotalAvailable(n) == <<"Insufficient stock. Total available:", n>>
MsgMaximumAvailable(n) == <<"Insufficient stock. Maximum available:", n>>
MsgInvalidOrder ==
    <<"Please enter a customer name and ensure cart has items with quantities.", 0>>
MsgOrderCreated == <<"Order successfully created!", 0>>

(***************************************************************************)
(* Cart operations of src/pages/Orders.tsx.                                *)
(***************************************************************************)
\* items.map(i => i.productId === productId ? { ...i, quantity } : i)
SetLineQuantity(items, productId, quantity) ==
    [i \in 1..Len(items) |->
        IF items[i].productId = productId
        THEN [items[i] EXCEPT !.quantity = quantity]
        ELSE items[i]]

\* AddedItems appending a line for every add
AddedItemsAlwaysAppend(items, productId, typedQty) ==
    Append(items, [productId |-> productId, quantity |-> typedQty])

\* the cart lines handleAddToCart leaves after adding typedQty of productId
AddedItems(items, productId, typedQty) ==
    LET at == FindLineIndex(items, productId)
        currentQtyInCart == IF at = 0 THEN 0 ELSE items[at].quantity
    IN  IF at # 0
        THEN SetLineQuantity(items, productId, currentQtyInCart + typedQty)
        ELSE Append(items, [productId |-> productId, quantity |-> typedQty])

\* handleAddToCart checking the quantity of this add alone against the stock
handleAddToCartPerAdd(prev, productId, text) ==
    LET typed == ParseInt(IF text = <<>> THEN <<"1">> ELSE text)
        typedQty == typed.val[1]
        idx == FindProductIndex(prev.products, productId)
        product == prev.products[idx]
        items == prev.cartSession.items
    IN  IF typed.nan \/ typedQty <= 0 THEN Outcome(prev, MsgInvalidQty)
        ELSE IF idx = 0 THEN Outcome(prev, NoAlert)
        ELSE IF product.stockQuantity = 0 THEN Outcome(prev, MsgOutOfStock)
        ELSE IF typedQty > product.stockQuantity
             THEN Outcome(prev, MsgTotalAvailable(product.stockQuantity))
        ELSE Outcome(
                [prev EXCEPT !.cartSession.items =
                                AddedItems(items, productId, typedQty)], NoAlert)

handleAddToCart(prev, productId, text) ==
    LET typed == ParseInt(IF text = <<>> THEN <<"1">> ELSE text)
        typedQty == typed.val[1]
        idx == FindProductIndex(prev.products, productId)
        product == prev.products[idx]
        items == prev.cartSession.items
        at == FindLineIndex(items, productId)
        currentQtyInCart == IF at = 0 THEN 0 ELSE items[at].quantity
        newTotalQty == currentQtyInCart + typedQty
    IN  IF typed.nan \/ typedQty <= 0 THEN Outcome(prev, MsgInvalidQty)
        ELSE IF idx = 0 THEN Outcome(prev, NoAlert)
        ELSE IF product.stockQuantity = 0 THEN Outcome(prev, MsgOutOfStock)
        ELSE IF newTotalQty > product.stockQuantity
             THEN Outcome(prev, MsgTotalAvailable(product.stockQuantity))
        ELSE Outcome(
                [prev EXCEPT !.cartSession.items =
                                AddedItems(items, productId, typedQty)], NoAlert)

\* updateCartQuantity without the check against the stock
updateCartQuantityUnchecked(prev, productId, text) ==
    LET parsed == ParseInt(text)
        newQty == parsed.val[1]
        idx == FindProductIndex(prev.products, productId)
    IN  IF idx = 0 THEN Outcome(prev, NoAlert)
        ELSE IF parsed.nan \/ newQty < 0 THEN Outcome(prev, NoAlert)
        ELSE Outcome(
                [prev EXCEPT !.cartSession.items =
                    SetLineQuantity(prev.cartSession.items, productId, newQty)],
                NoAlert)

updateCartQuantity(prev, productId, text) ==
    LET parsed == ParseInt(text)
        newQty == parsed.val[1]
        idx == FindProductIndex(prev.products, productId)
        product == prev.products[idx]
    IN  IF idx = 0 THEN Outcome(prev, NoAlert)
        ELSE IF parsed.nan \/ newQty < 0 THEN Outcome(prev, NoAlert)
        ELSE IF newQty > product.stockQuantity
             THEN Outcome(prev, MsgMaximumAvailable(product.stockQuantity))
        ELSE Outcome(
                [prev EXCEPT !.cartSession.items =
                    SetLineQuantity(prev.cartSession.items, productId, newQty)],
                NoAlert)

removeFromCart(prev, productId) ==
    Outcome(
        [prev EXCEPT !.cartSession.items =
            SelectSeq(prev.cartSession.items,
                      LAMBDA i : i.productId # productId)], NoAlert)

\* updateSessionField(field, value)
updateSessionField(prev, field, value) ==
    Outcome([prev EXCEPT !.cartSession[field] = value], NoAlert)

\* the discount input's onChange: parseFloat(e.target.value) || 0
DiscountValue(text) ==
    LET parsed == ParseFloat(text)
    IN  IF parsed.nan \/ parsed.val = Zero THEN Zero ELSE parsed.val

\* resetSession emptying the cart lines only
resetSessionItemsOnly(prev, confirmed) ==
    IF confirmed THEN Outcome([prev EXCEPT !.cartSession.items = <<>>], NoAlert)
    ELSE Outcome(prev, NoAlert)

\* resetSession: acts only when the confirm() dialog is accepted
resetSession(prev, confirmed) ==
    IF confirmed THEN Outcome([prev EXCEPT !.cartSession = EmptySession], NoAlert)
    ELSE Outcome(prev, NoAlert)

\* ValidCart keeping the lines of quantity 0
ValidCartAnyQuantity(lines) == SelectSeq(lines, LAMBDA item : item.quantity >= 0)

(***************************************************************************)
(* Order Commit: handleCreateOrder of src/pages/Orders.tsx.                *)
(***************************************************************************)
\* cartItems.filter(item => item.quantity > 0)
ValidCart(lines) == SelectSeq(lines, LAMBDA item : item.quantity > 0)

\* the frozen line snapshots
OrderItems(validCart) ==
    [i \in 1..Len(validCart) |->
        [productId |-> validCart[i].productId,
         productName |-> validCart[i].name,
         quantity |-> validCart[i].quantity,
         unitPrice |-> validCart[i].price,
         gstPercentage |-> validCart[i].gst,
         subtotal |-> validCart[i].subtotal,
         totalWithGst |-> validCart[i].total]]

\* index of the first line of validCart for this product, 0 when none
FindCartItem(validCart, id) ==
    IF \E i \in 1..Len(validCart) : validCart[i].productId = id
    THEN CHOOSE i \in 1..Len(validCart) :
            /\ validCart[i].productId = id
            /\ \A j \in 1..(i - 1) : validCart[j].productId # id
    ELSE 0

\* StockAfter taking one unit per line instead of the line's quantity
StockAfterOneUnit(p, validCart) ==
    LET at == FindCartItem(validCart, p.id)
    IN  IF at # 0 THEN p.stockQuantity - 1 ELSE p.stockQuantity

\* the stock one product is left with by the commit of validCart
StockAfter(p, validCart) ==
    LET at == FindCartItem(validCart, p.id)
    IN  IF at # 0 THEN p.stockQuantity - validCart[at].quantity
        ELSE p.stockQuantity

\* prev.products.map(p => cartItem ? { ...p, stockQuantity: ... } : p)
UpdatedProducts(prods, validCart) ==
    [i \in 1..Len(prods) |->
        [prods[i] EXCEPT !.stockQuantity = StockAfter(prods[i], validCart)]]

\* the Order record built from the cart session, the priced lines and the clock
NewOrder(session, lines, orderId, customerId, t) ==
    LET validCart == ValidCart(lines)
        totals == Totals(lines, session.discountPercentage)
    IN  [id |-> orderId,
         invoiceNumber |-> t % InvoiceModulus,
         date |-> t,
         customerId |-> customerId,
         customerName |-> session.customerName,
         customerPhone |-> session.customerPhone,
         customerAddress |-> session.customerAddress,
         customerGstin |-> session.customerGstin,
         items |-> OrderItems(validCart),
         totalAmount |-> totals.amount,
         totalGst |-> totals.gst,
         discountPercentage |-> session.discountPercentage,
         discountAmount |-> totals.discountAmount,
         grandTotal |-> totals.grandTotal]

\* CommitAccepted as an earlier revision of the page had it: any cart line,
\* of whatever quantity, lets the commit through
CommitAcceptedAnyLine(prev) ==
    /\ prev.cartSession.customerName # ""
    /\ prev.cartSession.items # <<>>

\* whether handleCreateOrder goes past its early return
CommitAccepted(prev) ==
    /\ prev.cartSession.customerName # ""
    /\ ValidCart(CartItems(prev.cartSession.items, prev.products)) # <<>>

\* CommittedState leaving the cart to a later, separate update
CommittedStateKeepsCart(prev, orderId, customerId, t) ==
    LET lines == CartItems(prev.cartSession.items, prev.products)
        newOrder == NewOrder(prev.cartSession, lines, orderId, customerId, t)
    IN  [prev EXCEPT
            !.products = UpdatedProducts(prev.products, ValidCart(lines)),
            !.orders = <<newOrder>> \o prev.orders]

\* the state the updater of handleCreateOrder returns
CommittedState(prev, orderId, customerId, t) ==
    LET lines == CartItems(prev.cartSession.items, prev.products)
        newOrder == NewOrder(prev.cartSession, lines, orderId, customerId, t)
    IN  [prev EXCEPT
            !.products = UpdatedProducts(prev.products, ValidCart(lines)),
            !.orders = <<newOrder>> \o prev.orders,
            !.cartSession = EmptySession]

handleCreateOrder(prev, orderId, customerId, t) ==
    IF ~CommitAccepted(prev) THEN Outcome(prev, MsgInvalidOrder)
    ELSE Outcome(CommittedState(prev, orderId, customerId, t), MsgOrderCreated)

(***************************************************************************)
(* Inventory edits of src/pages/Products.tsx.                              *)
(***************************************************************************)
\* the Product a submitted form makes
FormProduct(id, form) ==
    [id |-> id, sku |-> form.sku, name |-> form.name,
     category |-> form.category, unit |-> form.unit,
     costPrice |-> form.costPrice, sellingPrice |-> form.sellingPrice,
     gstPercentage |-> form.gstPercentage,
     stockQuantity |-> form.stockQuantity,
     minThreshold |-> form.minThreshold]

\* the form's onSubmit with no product being edited: products.push(product)
submitNewProduct(prev, id, form) ==
    Outcome([prev EXCEPT !.products = Append(@, FormProduct(id, form))], NoAlert)

\* submitEditedProduct carrying the new name, price and GST % into the
\* items of past orders
submitEditedProductRewritesOrders(prev, id, form) ==
    LET idx == FindProductIndex(prev.products, id)
    IN  Outcome([prev EXCEPT
                    !.products[idx] = FormProduct(id, form),
                    !.orders = [k \in 1..Len(@) |->
                        [@[k] EXCEPT !.items = [j \in 1..Len(@) |->
                            IF @[j].productId = id
                            THEN [@[j] EXCEPT
                                    !.productName = form.name,
                                    !.unitPrice = form.sellingPrice,
                                    !.gstPercentage = form.gstPercentage]
                            ELSE @[j]]]]],
                NoAlert)

\* the form's onSubmit while editing: products[idx] = product
submitEditedProduct(prev, id, form) ==
    LET idx == FindProductIndex(prev.products, id)
    IN  Outcome([prev EXCEPT !.products[idx] = FormProduct(id, form)], NoAlert)

\* deleteProduct cascading to the orders that hold the product
deleteProductCascade(prev, id, confirmed) ==
    IF confirmed
    THEN Outcome([prev EXCEPT
                    !.products = SelectSeq(@, LAMBDA p : p.id # id),
                    !.orders = SelectSeq(@, LAMBDA o :
                        \A j \in 1..Len(o.items) : o.items[j].productId # id)],
                 NoAlert)
    ELSE Outcome(prev, NoAlert)

\* handleDelete of Products: acts only when confirm() is accepted
deleteProduct(prev, id, confirmed) ==
    IF confirmed
    THEN Outcome([prev EXCEPT !.products =
                    SelectSeq(@, LAMBDA p : p.id # id)], NoAlert)
    ELSE Outcome(prev, NoAlert)

(***************************************************************************)
(* Vendor directory (src/unnamed/part_002) and vendor requests             *)
(* (src/unnamed/part_005).                                                 *)
(***************************************************************************)
FindVendorIndex(vs, id) ==
    IF \E i \in 1..Len(vs) : vs[i].id = id
    THEN CHOOSE i \in 1..Len(vs) :
            /\ vs[i].id = id
            /\ \A j \in 1..(i - 1) : vs[j].id # id
    ELSE 0

FormVendor(id, form) ==
    [id |-> id, name |-> form.name, gstin |-> form.gstin,
     contact |-> form.contact, address |-> form.address]

submitNewVendor(prev, id, form) ==
    Outcome([prev EXCEPT !.vendors = Append(@, FormVendor(id, form))], NoAlert)

submitEditedVendor(prev, id, form) ==
    LET idx == FindVendorIndex(prev.vendors, id)
    IN  Outcome([prev EXCEPT !.vendors[idx] = FormVendor(id, form)], NoAlert)

\* handleDelete of Vendors: acts only when confirm() is accepted
deleteVendor(prev, id, confirmed) ==
    IF confirmed
    THEN Outcome([prev EXCEPT !.vendors =
                    SelectSeq(@, LAMBDA v : v.id # id)], NoAlert)
    ELSE Outcome(prev, NoAlert)

\* the value "" of the select's first option
NoSelection == <<"", 0>>

\* the "Populate from Vendor" select of the Orders page
populateFromVendor(prev, vid) ==
    LET idx == FindVendorIndex(prev.vendors, vid)
        vendor == prev.vendors[idx]
    IN  IF vid = NoSelection
        THEN Outcome([prev EXCEPT !.cartSession.customerName = "",
                                  !.cartSession.customerPhone = "",
                                  !.cartSession.customerAddress = "",
                                  !.cartSession.customerGstin = ""], NoAlert)
        ELSE IF idx = 0 THEN Outcome(prev, NoAlert)
        ELSE Outcome([prev EXCEPT
                        !.cartSession.customerName = vendor.name,
                        !.cartSession.customerPhone = vendor.contact,
                        !.cartSession.customerAddress = vendor.address,
                        !.cartSession.customerGstin = vendor.gstin], NoAlert)

handleCreateRequest(prev, id, vendorId, productId, form, t) ==
    LET v == FindVendorIndex(prev.vendors, vendorId)
        p == FindProductIndex(prev.products, productId)
        newRequest ==
            [id |-> id, vendorId |-> prev.vendors[v].id,
             vendorName |-> prev.vendors[v].name,
             productId |-> prev.products[p].id,
             productName |-> prev.products[p].name,
             quantity |-> form.quantity, expectedDate |-> form.expectedDate,
             status |-> "Pending", createdAt |-> t]
    IN  IF v = 0 \/ p = 0 THEN Outcome(prev, NoAlert)
        ELSE Outcome([prev EXCEPT !.requests = <<newRequest>> \o @], NoAlert)

\* handleStatusChange setting the status of every request
handleStatusChangeAll(prev, requestId, newStatus) ==
    Outcome([prev EXCEPT !.requests =
                [i \in 1..Len(@) |-> [@[i] EXCEPT !.status = newStatus]]],
            NoAlert)

handleStatusChange(prev, requestId, newStatus) ==
    Outcome([prev EXCEPT !.requests =
                [i \in 1..Len(@) |->
                    IF @[i].id = requestId
                    THEN [@[i] EXCEPT !.status = newStatus]
                    ELSE @[i]]], NoAlert)

\* the status buttons a request row offers
OfferedStatuses(status) ==
    CASE status = "Pending" -> {"Approved", "Rejected"}
      [] status = "Approved" -> {"Delivered"}
      [] OTHER -> {}

(***************************************************************************)
(* Invoice Renderer: generatePDF of src/pages/Orders.tsx.  The document is *)
(* the sequence of the texts, images and tables drawn on it, in the order  *)
(* of the calls that draw them, each with the y it is drawn at; the page   *)
(* border, the ruled lines, the fonts and the colours are left out.        *)
(***************************************************************************)
RECURSIVE Numeral(_)
\* String(n) of an integer n >= 0
Numeral(n) ==
    IF n < 10 THEN Digits[n + 1]
    ELSE Numeral(n \div 10) \o Digits[(n % 10) + 1]

RECURSIVE FixedDigits(_, _)
\* the last k decimal digits of n, leading zeros included
FixedDigits(n, k) ==
    IF k = 0 THEN "" ELSE FixedDigits(n \div 10, k - 1) \o Digits[(n % 10) + 1]

RECURSIVE Decimals(_, _)
\* the digits after the point of n / d, for n < d and a finite expansion
Decimals(n, d) ==
    IF n = 0 THEN ""
    ELSE Digits[((10 * n) \div d) + 1] \o Decimals((10 * n) % d, d)

\* a number put into a template literal or joined to a string: String(x)
NumberText(x) ==
    LET n == Abs(x[1])
        rest == n % x[2]
    IN  (IF x[1] < 0 THEN "-" ELSE "") \o Numeral(n \div x[2])
            \o (IF rest # 0 THEN "." \o Decimals(rest, x[2]) ELSE "")

\* x.toFixed(2): x rounded to the nearest hundredth, two decimals written
ToFixed2(x) ==
    LET n == Abs(x[1])
        cents == (200 * n + x[2]) \div (2 * x[2])
    IN  (IF x[1] < 0 THEN "-" ELSE "") \o Numeral(cents \div 100) \o "."
            \o FixedDigits(cents % 100, 2)

\* `INV-${Date.now().toString().slice(-6)}`
InvoiceNumberText(order) == "INV-" \o FixedDigits(order.invoiceNumber, 6)

\* formatDate(order.date) of utils/format: a text made from the date alone
formatDate(date) == Numeral(date)

\* doc.splitTextToSize(text, 80): the lines the text is wrapped into
LongAddress == "14 Lake View Road, Ballygunge Phari, Kolkata 700019, West Bengal"

SplitTextToSize(text) ==
    IF text = LongAddress
    THEN <<"14 Lake View Road, Ballygunge Phari, Kolkata 700019,",
           "West Bengal">>
    ELSE <<text>>

\* the number numberToWords is called with, as rupees and fraction
AmountOf(x) == [whole |-> x[1] \div x[2], frac |-> Rat(x[1] % x[2], x[2])]

\* one doc.text, doc.addImage or autoTable call
Block(section, text, y) == [section |-> section, text |-> text, y |-> y]

\* the watermark, drawn when the logo was fetched and decoded, centred on
\* the page: new jsPDF() is an A4 page of 210 by 297 (millimetres), and a
\* square logo at least maxW = pageWidth * 0.45 wide is scaled to maxW
Watermark(loaded) ==
    LET pageWidth == Num(210)
        pageHeight == Num(297)
        wmH == RMul(pageWidth, Rat(45, 100))
    IN  IF loaded
        THEN <<Block("watermark", <<"/freshfold-logo.png">>,
                     RDiv(RSub(pageHeight, wmH), Num(2)))>>
        ELSE <<>>

CompanyHeader ==
    <<Block("header", <<"CRAFTLINE PRODUCTION">>, Num(20)),
      Block("header", <<"Manufacturer of Fresh Fold Tissue">>, Num(27)),
      Block("header", <<"Contact: +91 9477110150">>, Num(33)),
      Block("header", <<"Email: craftlineproduction25@gmail.com">>, Num(38))>>

\* the logo, drawn top right when it was fetched
Logo(loaded) ==
    IF loaded THEN <<Block("logo", <<"/freshfold-logo.png">>, Num(8))>>
    ELSE <<>>

\* logoDrawn ? (logoY + logoSize + 4) : 33
InvoiceMetaStartY(logoDrawn) == IF logoDrawn THEN Num(8 + 35 + 4) ELSE Num(33)

InvoiceMeta(order, logoDrawn) ==
    LET y == InvoiceMetaStartY(logoDrawn)
    IN  <<Block("invoiceMeta",
                <<"Invoice No: " \o InvoiceNumberText(order)>>, y),
          Block("invoiceMeta", <<"Date: " \o formatDate(order.date)>>,
                RAdd(y, Num(5)))>>

\* the bill-to block with a label for each optional field, empty or not
BillToAlwaysLabelled(order, logoDrawn) ==
    LET start == RAdd(InvoiceMetaStartY(logoDrawn), Num(19))
        phoneY == RAdd(start, Num(13))
        addressY == RAdd(phoneY, Num(5))
        split == SplitTextToSize(order.customerAddress)
        gstinY == RAdd(addressY, RMul(Num(Len(split)), Rat(9, 2)))
    IN  [blocks |->
            <<Block("billTo", <<"BILL TO:">>, start),
              Block("billTo", <<ToUpperCase(order.customerName)>>,
                    RAdd(start, Num(7))),
              Block("billTo", <<"Phone: ", order.customerPhone>>, phoneY),
              Block("billTo", <<"Address: ">> \o split, addressY),
              Block("billTo", <<"GSTIN: ", order.customerGstin>>, gstinY)>>,
         currentYHeader |-> RAdd(gstinY, Num(5))]

\* the bill-to block and the y below its last line
BillTo(order, logoDrawn) ==
    LET start == RAdd(InvoiceMetaStartY(logoDrawn), Num(19))
        phoneY == RAdd(start, Num(13))
        phone == IF order.customerPhone # ""
                 THEN <<Block("billTo", <<"Phone: ", order.customerPhone>>,
                              phoneY)>>
                 ELSE <<>>
        addressY == IF order.customerPhone # "" THEN RAdd(phoneY, Num(5))
                    ELSE phoneY
        split == SplitTextToSize(order.customerAddress)
        address == IF order.customerAddress # ""
                   THEN <<Block("billTo", <<"Address: ">> \o split, addressY)>>
                   ELSE <<>>
        gstinY == IF order.customerAddress # ""
                  THEN RAdd(addressY, RMul(Num(Len(split)), Rat(9, 2)))
                  ELSE addressY
        gstin == IF order.customerGstin # ""
                 THEN <<Block("billTo", <<"GSTIN: ", order.customerGstin>>,
                              gstinY)>>
                 ELSE <<>>
    IN  [blocks |->
            <<Block("billTo", <<"BILL TO:">>, start),
              Block("billTo", <<ToUpperCase(order.customerName)>>,
                    RAdd(start, Num(7)))>>
                \o phone \o address \o gstin,
         currentYHeader |-> IF order.customerGstin # ""
                            THEN RAdd(gstinY, Num(5)) ELSE gstinY]

RECURSIVE TableBody(_, _)
\* order.items.map((item, i) => [...]), the cells of the rows from row i on
TableBody(items, i) ==
    IF i > Len(items) THEN <<>>
    ELSE <<Numeral(i), items[i].productName, Numeral(items[i].quantity),
           ToFixed2(items[i].unitPrice),
           NumberText(items[i].gstPercentage) \o "%",
           ToFixed2(items[i].totalWithGst)>> \o TableBody(items, i + 1)

RECURSIVE TableBodyLiveNames(_, _)
\* the rows with the description read from the catalog as it is now
TableBodyLiveNames(items, i) ==
    IF i > Len(items) THEN <<>>
    ELSE <<Numeral(i),
           IF HasProduct(products, items[i].productId)
           THEN products[FindProductIndex(products, items[i].productId)].name
           ELSE items[i].productName,
           Numeral(items[i].quantity),
           ToFixed2(items[i].unitPrice),
           NumberText(items[i].gstPercentage) \o "%",
           ToFixed2(items[i].totalWithGst)>>
            \o TableBodyLiveNames(items, i + 1)

\* startY: Math.max(75, currentYHeader + 5)
TableStartY(order, logoDrawn) ==
    LET y == RAdd(BillTo(order, logoDrawn).currentYHeader, Num(5))
    IN  IF RGt(y, Num(75)) THEN y ELSE Num(75)

\* the table with the descriptions read from the catalog
ProductTableLiveNames(order, logoDrawn) ==
    <<Block("table",
            <<"Sl.", "Product Description", "Qty", "Unit Price", "GST %",
              "Total (INR)">> \o TableBodyLiveNames(order.items, 1),
            TableStartY(order, logoDrawn))>>

ProductTable(order, logoDrawn) ==
    <<Block("table",
            <<"Sl.", "Product Description", "Qty", "Unit Price", "GST %",
              "Total (INR)">> \o TableBody(order.items, 1),
            TableStartY(order, logoDrawn))>>

\* the height autoTable gives a row of font size 9 with cell padding 3
TableRowHeight == Rat(193, 20)

\* lastAutoTable.finalY + 10: below the head row and one row per item
FinalY(order, logoDrawn) ==
    RAdd(RAdd(TableStartY(order, logoDrawn),
              RMul(TableRowHeight, Num(1 + Len(order.items)))),
         Num(10))

\* currentYSummary at the grand total
GrandTotalY(order, logoDrawn) ==
    RAdd(FinalY(order, logoDrawn),
         Num(IF RGt(order.discountAmount, Zero) THEN 24 ELSE 17))

Summary(order, logoDrawn) ==
    LET finalY == FinalY(order, logoDrawn)
        discounted == RGt(order.discountAmount, Zero)
        gstY == RAdd(finalY, Num(IF discounted THEN 14 ELSE 7))
    IN  <<Block("summary", <<"Subtotal:", ToFixed2(order.totalAmount)>>,
                finalY)>>
        \o (IF discounted
            THEN <<Block("summary",
                         <<"Discount (" \o NumberText(order.discountPercentage)
                               \o "%):",
                           "- " \o ToFixed2(order.discountAmount)>>,
                         RAdd(finalY, Num(7)))>>
            ELSE <<>>)
        \o <<Block("summary",
                   <<"Total GST Amount:", ToFixed2(order.totalGst)>>, gstY),
             Block("summary",
                   <<"Grand Total:", "INR " \o ToFixed2(order.grandTotal)>>,
                   RAdd(gstY, Num(10)))>>

\* the amount in words, at currentYSummary + 12
AmountWords(order, logoDrawn) ==
    <<Block("amountInWords",
            <<"Amount (in words):", numberToWords(AmountOf(order.grandTotal))>>,
            RAdd(GrandTotalY(order, logoDrawn), Num(12)))>>

\* Math.max(footerY - 65, currentYSummary + 15)
TermsY(order, logoDrawn) ==
    LET y == RAdd(GrandTotalY(order, logoDrawn), Num(15))
    IN  IF RGt(y, Num(255 - 65)) THEN y ELSE Num(255 - 65)

\* the payment QR code with its caption drawn whether it was fetched or not
PaymentQrCaptionAlways(order, logoDrawn, loaded) ==
    LET qrCodeY == RSub(TermsY(order, logoDrawn), Num(40))
    IN  (IF loaded THEN <<Block("qr", <<"/qrcode-freshfold.jpeg">>, qrCodeY)>> ELSE <<>>)
            \o <<Block("qr", <<"Scan for Payment">>, RAdd(qrCodeY, Num(33)))>>

\* the payment QR code and its caption, drawn when the image was fetched
PaymentQr(order, logoDrawn, loaded) ==
    LET qrCodeY == RSub(TermsY(order, logoDrawn), Num(40))
    IN  IF loaded
        THEN <<Block("qr", <<"/qrcode-freshfold.jpeg">>, qrCodeY),
               Block("qr", <<"Scan for Payment">>, RAdd(qrCodeY, Num(33)))>>
        ELSE <<>>

Terms(order, logoDrawn) ==
    LET termsY == TermsY(order, logoDrawn)
    IN  <<Block("terms", <<"Terms and conditions:">>, termsY),
          Block("terms", <<"1. Product once sold will not be taken back.">>,
                RAdd(termsY, Num(6))),
          Block("terms", <<"2. Payment should be made within time.">>,
                RAdd(termsY, Num(11))),
          Block("terms", <<"3. Avail special discount with bulk order.">>,
                RAdd(termsY, Num(16))),
          Block("thanks", <<"Thank you for making business with us.">>,
                RAdd(termsY, Num(25)))>>

\* the signature lines and the closing disclaimer
Signatures ==
    <<Block("signatures", <<"Receiver's Signature">>, Num(255 + 5)),
      Block("signatures", <<"For CRAFTLINE PRODUCTION">>, Num(255 - 15)),
      Block("signatures", <<"Authorized Signatory & Stamp">>, Num(255 + 5)),
      Block("disclaimer",
            <<"Computer Generated Invoice - Valid without manual signature if stamped by the firm.">>,
            Num(285))>>

\* the issuer header drawn before the watermark
UntilLogoFetchHeaderFirst(watermarkLoaded) ==
    CompanyHeader \o Watermark(watermarkLoaded)

\* what generatePDF draws once the watermark's fetch has settled, until it
\* awaits the logo
UntilLogoFetch(watermarkLoaded) ==
    Watermark(watermarkLoaded) \o CompanyHeader

\* what it draws once the logo's fetch has settled, until it awaits the QR
\* code
UntilQrFetch(order, logoLoaded) ==
    Logo(logoLoaded) \o InvoiceMeta(order, logoLoaded)
        \o BillTo(order, logoLoaded).blocks \o ProductTable(order, logoLoaded)
        \o Summary(order, logoLoaded) \o AmountWords(order, logoLoaded)

\* what it draws once the QR code's fetch has settled, until doc.save
UntilSave(order, logoDrawn, qrLoaded) ==
    PaymentQr(order, logoDrawn, qrLoaded) \o Terms(order, logoDrawn)
        \o Signatures

\* the whole document of an order, for the outcomes <<watermark, logo, QR
\* code>> of the three fetches
generatePDF(order, assets) ==
    UntilLogoFetch(assets[1]) \o UntilQrFetch(order, assets[2])
        \o UntilSave(order, assets[2], assets[3])

\* doc.save(`${order.invoiceNumber}.pdf`)
SavedFile(order) == InvoiceNumberText(order) \o ".pdf"

\* no invoice printed, none in the making
NoInvoice ==
    [pc |-> "idle", order |-> <<>>, assets |-> <<>>, blocks |-> <<>>,
     saved |-> "", previous |-> <<>>]

(***************************************************************************)
(* The state machine.                                                      *)
(***************************************************************************)
\* the product of the catalog that an earlier session saved
SavedProduct ==
    [id |-> <<"PRD", 1>>, sku |-> "TR-001", name |-> "Facial Tissue",
     category |-> "Other", unit |-> "packs", costPrice |-> Num(60),
     sellingPrice |-> Num(100), gstPercentage |-> Num(18),
     stockQuantity |-> MaxStock, minThreshold |-> 10]

\* useState(() => saved ? JSON.parse(saved) : INITIAL_STATE): a first run
\* starts from INITIAL_STATE, which has no cartSession; a later run starts
\* from the state an earlier session saved, here one with a product in stock
\* and an empty cart session
Init ==
    /\ vendors = <<>>
    /\ requests = <<>>
    /\ orders = <<>>
    /\ \/ /\ products = <<>>
          /\ cartSession = Undefined
          /\ generated = [prefix \in {"PRD", "VND", "REQ", "ORD", "CUS"} |-> 0]
       \/ /\ products = <<SavedProduct>>
          /\ cartSession = EmptySession
          /\ generated = [prefix \in {"PRD", "VND", "REQ", "ORD", "CUS"} |->
                            IF prefix = "PRD" THEN 1 ELSE 0]
    /\ now = 0
    /\ alert = NoAlert
    /\ events = 0
    /\ words = NoWords
    /\ invoice = NoInvoice

\* setState(prev => updater(prev)), with the alert the handler shows
Apply(outcome) ==
    /\ products' = outcome.state.products
    /\ vendors' = outcome.state.vendors
    /\ requests' = outcome.state.requests
    /\ orders' = outcome.state.orders
    /\ cartSession' = outcome.state.cartSession
    /\ alert' = outcome.alert
    /\ events < MaxEvents
    /\ events' = events + 1
    /\ UNCHANGED <<words, invoice>>

\* the Orders page renders, and its handlers exist, only with a cartSession
OrdersPageUp == IsDefined(cartSession)

\* the products whose Add button is enabled: those with stock other than 0
OfferedToAdd ==
    {products[i].id :
        i \in {j \in 1..Len(products) : products[j].stockQuantity # 0}}

\* the products of the cart lines the page renders (cartItems)
RenderedLines ==
    LET lines == CartItems(cartSession.items, products)
    IN  {lines[i].productId : i \in 1..Len(lines)}

\* the Create button is disabled on an empty cart or an empty customer name
CreateEnabled ==
    /\ cartSession.items # <<>>
    /\ cartSession.customerName # ""

AddToCart ==
    /\ OrdersPageUp
    /\ \E id \in OfferedToAdd, text \in QtyTexts :
          Apply(handleAddToCart(AppState, id, text))
    /\ UNCHANGED <<generated, now>>

UpdateCartQuantity ==
    /\ OrdersPageUp
    /\ \E id \in RenderedLines, text \in QtyTexts :
          Apply(updateCartQuantity(AppState, id, text))
    /\ UNCHANGED <<generated, now>>

RemoveFromCart ==
    /\ OrdersPageUp
    /\ \E id \in RenderedLines : Apply(removeFromCart(AppState, id))
    /\ UNCHANGED <<generated, now>>

TypeCustomerName ==
    /\ OrdersPageUp
    /\ \E name \in CustomerNames :
          Apply(updateSessionField(AppState, "customerName", name))
    /\ UNCHANGED <<generated, now>>

TypeOptionalField ==
    /\ OrdersPageUp
    /\ \E field \in DOMAIN OptionalFieldTexts :
          \E text \in OptionalFieldTexts[field] :
             Apply(updateSessionField(AppState, field,
                      IF field = "customerGstin" THEN ToUpperCase(text)
                      ELSE text))
    /\ UNCHANGED <<generated, now>>

PopulateFromVendor ==
    /\ OrdersPageUp
    /\ \E vid \in {NoSelection} \cup {vendors[i].id : i \in 1..Len(vendors)} :
          Apply(populateFromVendor(AppState, vid))
    /\ UNCHANGED <<generated, now>>

TypeDiscount ==
    /\ OrdersPageUp
    /\ \E text \in DiscountTexts :
          Apply(updateSessionField(AppState, "discountPercentage",
                                   DiscountValue(text)))
    /\ UNCHANGED <<generated, now>>

ResetSession ==
    /\ OrdersPageUp
    /\ \E confirmed \in BOOLEAN : Apply(resetSession(AppState, confirmed))
    /\ UNCHANGED <<generated, now>>

CreateOrder ==
    /\ OrdersPageUp
    /\ CreateEnabled
    /\ Len(orders) < MaxOrders
    /\ \E step \in ClockSteps :
          LET t == now + step
              outcome == handleCreateOrder(AppState, NewId("ORD"),
                                           NewId("CUS"), t)
          IN  /\ Apply(outcome)
              /\ now' = t
              /\ generated' = [generated EXCEPT !["ORD"] = @ + 1,
                                                !["CUS"] = @ + 1]

SubmitNewProduct ==
    /\ generated["PRD"] < MaxProducts
    /\ \E form \in ProductForms :
          Apply(submitNewProduct(AppState, NewId("PRD"), form))
    /\ generated' = [generated EXCEPT !["PRD"] = @ + 1]
    /\ UNCHANGED now

SubmitEditedProduct ==
    /\ \E i \in 1..Len(products), form \in ProductForms :
          Apply(submitEditedProduct(AppState, products[i].id, form))
    /\ UNCHANGED <<generated, now>>

DeleteProduct ==
    /\ \E i \in 1..Len(products), confirmed \in BOOLEAN :
          Apply(deleteProduct(AppState, products[i].id, confirmed))
    /\ UNCHANGED <<generated, now>>

SubmitNewVendor ==
    /\ generated["VND"] < MaxVendors
    /\ \E form \in VendorForms :
          Apply(submitNewVendor(AppState, NewId("VND"), form))
    /\ generated' = [generated EXCEPT !["VND"] = @ + 1]
    /\ UNCHANGED now

SubmitEditedVendor ==
    /\ \E i \in 1..Len(vendors), form \in VendorForms :
          Apply(submitEditedVendor(AppState, vendors[i].id, form))
    /\ UNCHANGED <<generated, now>>

DeleteVendor ==
    /\ \E i \in 1..Len(vendors), confirmed \in BOOLEAN :
          Apply(deleteVendor(AppState, vendors[i].id, confirmed))
    /\ UNCHANGED <<generated, now>>

CreateRequest ==
    /\ generated["REQ"] < MaxRequests
    /\ \E v \in 1..Len(vendors), p \in 1..Len(products),
          form \in RequestForms :
          Apply(handleCreateRequest(AppState, NewId("REQ"), vendors[v].id,
                                    products[p].id, form, now))
    /\ generated' = [generated EXCEPT !["REQ"] = @ + 1]
    /\ UNCHANGED now

StatusChange ==
    /\ \E i \in 1..Len(requests) :
          \E newStatus \in OfferedStatuses(requests[i].status) :
             Apply(handleStatusChange(AppState, requests[i].id, newStatus))
    /\ UNCHANGED <<generated, now>>

Next ==
    \/ AddToCart
    \/ UpdateCartQuantity
    \/ RemoveFromCart
    \/ TypeCustomerName
    \/ TypeOptionalField
    \/ PopulateFromVendor
    \/ TypeDiscount
    \/ ResetSession
    \/ CreateOrder
    \/ SubmitNewProduct
    \/ SubmitEditedProduct
    \/ DeleteProduct
    \/ SubmitNewVendor
    \/ SubmitEditedVendor
    \/ DeleteVendor
    \/ CreateRequest
    \/ StatusChange

Spec == Init /\ [][Next]_vars

\* the sales core alone: the cart and commit handlers of the Orders page and
\* the inventory edits of the Products page
NextSales ==
    \/ AddToCart
    \/ UpdateCartQuantity
    \/ RemoveFromCart
    \/ TypeCustomerName
    \/ TypeDiscount
    \/ ResetSession
    \/ CreateOrder
    \/ SubmitNewProduct
    \/ SubmitEditedProduct
    \/ DeleteProduct

SpecSales == Init /\ [][NextSales]_vars

(***************************************************************************)
(* The pricing of saved sessions: the application reopened on a state an   *)
(* earlier session saved, with a catalog, a cart and a discount.           *)
(***************************************************************************)
\* the first product of a saved catalog
SavedFirstProducts ==
    {[SavedProduct EXCEPT !.sellingPrice = price, !.gstPercentage = gst,
                          !.stockQuantity = PricingStock] :
        price \in {Zero, Num(100), Rat(199, 2)}, gst \in {Zero, Num(18)}}

\* the second product of a saved catalog, when it has one
SavedSecondProduct ==
    [SavedProduct EXCEPT !.id = <<"PRD", 2>>, !.name = "Napkins",
                         !.sellingPrice = Num(250), !.gstPercentage = Num(5),
                         !.stockQuantity = PricingStock]

SavedCatalogs ==
    {<<p>> : p \in SavedFirstProducts}
        \cup {<<p, SavedSecondProduct>> : p \in SavedFirstProducts}

\* a saved cart line: the cart operations keep quantities within 0..stock
SavedLines == [productId : ProductIds, quantity : 0..PricingStock]

\* saved carts: at most one line per product; a line may outlive its product
SavedCarts ==
    {<<>>} \cup {<<l>> : l \in SavedLines}
        \cup {c \in {<<l, m>> : l \in SavedLines, m \in SavedLines} :
                c[1].productId # c[2].productId}

\* saved discount percentages: 0, 10, 12.5 and 100
SavedDiscounts == {Zero, Num(10), Rat(25, 2), Num(100)}

InitPricing ==
    /\ products \in SavedCatalogs
    /\ vendors = <<>>
    /\ requests = <<>>
    /\ orders = <<>>
    /\ \E cart \in SavedCarts, discount \in SavedDiscounts :
          cartSession = [EmptySession EXCEPT
                            !.items = cart,
                            !.customerName = "Asha Traders",
                            !.discountPercentage = discount]
    /\ generated = [prefix \in {"PRD", "VND", "REQ", "ORD", "CUS"} |->
                      IF prefix = "PRD" THEN MaxProducts ELSE 0]
    /\ now = 0
    /\ alert = NoAlert
    /\ events = MaxEvents - PricingEvents
    /\ words = NoWords
    /\ invoice = NoInvoice

NextPricing ==
    \/ UpdateCartQuantity
    \/ RemoveFromCart
    \/ TypeDiscount
    \/ CreateOrder

SpecPricing == InitPricing /\ [][NextPricing]_vars

(***************************************************************************)
(* The amount in words of an invoice: generatePDF calls numberToWords on   *)
(* the grand total of the order it prints.                                 *)
(***************************************************************************)
\* the rupees of the grand totals put in words
WordRupees ==
    {0, 1, 9, 10, 11, 15, 19, 20, 21, 40, 99, 100, 101, 110, 119, 520, 999,
     1000, 1001, 10000, 19000, 99999, 100000, 100001, 1234567, 9999999,
     10000000, 10100000, 123456789, 990000000, 999999999}

\* the fractional parts of the grand totals put in words
WordFractions ==
    {Zero, Rat(1, 100), Rat(5, 100), Rat(10, 100), Rat(19, 100), Rat(50, 100),
     Rat(89, 100), Rat(99, 100), Rat(1, 8), Rat(199, 200)}

WordAmounts == [whole : WordRupees, frac : WordFractions]

InitWords ==
    /\ products = <<SavedProduct>>
    /\ vendors = <<>>
    /\ requests = <<>>
    /\ orders = <<>>
    /\ cartSession = EmptySession
    /\ generated = [prefix \in {"PRD", "VND", "REQ", "ORD", "CUS"} |->
                      IF prefix = "PRD" THEN 1 ELSE 0]
    /\ now = 0
    /\ alert = NoAlert
    /\ events = 0
    /\ \E amount \in WordAmounts : words = [amount |-> amount, text |-> ""]
    /\ invoice = NoInvoice

\* const amountWords = numberToWords(order.grandTotal)
AmountInWords ==
    /\ words.text = ""
    /\ words' = [words EXCEPT !.text = numberToWords(words.amount)]
    /\ UNCHANGED <<products, vendors, requests, orders, cartSession, generated,
                   now, alert, events, invoice>>

NextWords == AmountInWords

SpecWords == InitWords /\ [][NextWords]_vars

(***************************************************************************)
(* Selling from a saved catalog that no one edits: the Products page is    *)
(* left alone, and the stock changes through commits only.                 *)
(***************************************************************************)
InitCart ==
    /\ \E first \in StockLevels, second \in StockLevels :
          products = <<[SavedProduct EXCEPT !.stockQuantity = first],
                       [SavedSecondProduct EXCEPT !.stockQuantity = second]>>
    /\ vendors = <<>>
    /\ requests = <<>>
    /\ orders = <<>>
    /\ cartSession = EmptySession
    /\ generated = [prefix \in {"PRD", "VND", "REQ", "ORD", "CUS"} |->
                      IF prefix = "PRD" THEN MaxProducts ELSE 0]
    /\ now = 0
    /\ alert = NoAlert
    /\ events = 0
    /\ words = NoWords
    /\ invoice = NoInvoice

NextCart ==
    \/ AddToCart
    \/ UpdateCartQuantity
    \/ RemoveFromCart
    \/ TypeCustomerName
    \/ ResetSession
    \/ CreateOrder

SpecCart == InitCart /\ [][NextCart]_vars

(***************************************************************************)
(* The printing of invoices: the application reopened on a state with      *)
(* committed orders; an invoice is printed while the catalog is edited.    *)
(* generatePDF runs in the background: it awaits the fetch of the          *)
(* watermark, of the logo and of the QR code, and other handlers run while *)
(* it waits.  One invoice is in the making at a time.                      *)
(***************************************************************************)
SavedCatalog == <<SavedProduct, SavedSecondProduct>>

\* the cart sessions the saved orders were committed from
SavedSessions ==
    {[items |-> cart, customerName |-> "Asha Traders",
      customerPhone |-> phone, customerAddress |-> address,
      customerGstin |-> gstin, discountPercentage |-> Rat(25, 2)] :
        cart \in {<<[productId |-> <<"PRD", 1>>, quantity |-> 2],
                    [productId |-> <<"PRD", 2>>, quantity |-> 1]>>},
        phone \in {"", "9876543210"},
        address \in {"", "Kolkata", LongAddress},
        gstin \in {"", "19ABCDE1234F1Z5"}}

\* the instant the later of the saved orders was committed at
SecondCommit == InvoiceModulus + 234567

\* the order an earlier session committed first, without a discount
FirstSavedOrder ==
    NewOrder([EmptySession EXCEPT
                !.items = <<[productId |-> <<"PRD", 2>>, quantity |-> 1]>>,
                !.customerName = "Asha Traders"],
             CartItems(<<[productId |-> <<"PRD", 2>>, quantity |-> 1]>>,
                       SavedCatalog),
             <<"ORD", 1>>, <<"CUS", 1>>, InvoiceModulus + 41)

InitInvoice ==
    /\ products = SavedCatalog
    /\ vendors = <<>>
    /\ requests = <<>>
    /\ \E session \in SavedSessions :
          orders = <<NewOrder(session, CartItems(session.items, SavedCatalog),
                              <<"ORD", 2>>, <<"CUS", 2>>, SecondCommit),
                     FirstSavedOrder>>
    /\ cartSession = EmptySession
    /\ generated = [prefix \in {"PRD", "VND", "REQ", "ORD", "CUS"} |->
                      IF prefix \in {"PRD", "ORD", "CUS"} THEN 2 ELSE 0]
    /\ now = SecondCommit
    /\ alert = NoAlert
    /\ events = MaxEvents - InvoiceEvents
    /\ words = NoWords
    /\ invoice = NoInvoice

\* onClick={() => void generatePDF(order)}: the document is started and
\* generatePDF awaits the fetch of the watermark
PrintInvoice ==
    /\ OrdersPageUp
    /\ invoice.pc \in {"idle", "saved"}
    /\ \E i \in 1..Len(orders) :
          invoice' = [pc |-> "watermark", order |-> <<orders[i]>>,
                      assets |-> <<>>, blocks |-> <<>>, saved |-> "",
                      previous |-> IF invoice.pc = "saved"
                                   THEN <<[order |-> invoice.order,
                                           assets |-> invoice.assets,
                                           blocks |-> invoice.blocks,
                                           saved |-> invoice.saved]>>
                                   ELSE invoice.previous]
    /\ UNCHANGED <<products, vendors, requests, orders, cartSession, generated,
                   now, alert, events, words>>

\* the fetch of the watermark settles, loaded or failed
WatermarkSettles ==
    /\ invoice.pc = "watermark"
    /\ \E loaded \in BOOLEAN :
          invoice' = [invoice EXCEPT
                        !.pc = "logo",
                        !.assets = Append(@, loaded),
                        !.blocks = @ \o UntilLogoFetch(loaded)]
    /\ UNCHANGED <<products, vendors, requests, orders, cartSession, generated,
                   now, alert, events, words>>

\* the fetch of the logo settles
LogoSettles ==
    /\ invoice.pc = "logo"
    /\ \E loaded \in BOOLEAN :
          invoice' = [invoice EXCEPT
                        !.pc = "qr",
                        !.assets = Append(@, loaded),
                        !.blocks = @ \o UntilQrFetch(invoice.order[1], loaded)]
    /\ UNCHANGED <<products, vendors, requests, orders, cartSession, generated,
                   now, alert, events, words>>

\* the fetch of the QR code settles; the document is completed and saved
QrSettles ==
    /\ invoice.pc = "qr"
    /\ \E loaded \in BOOLEAN :
          invoice' = [invoice EXCEPT
                        !.pc = "saved",
                        !.assets = Append(@, loaded),
                        !.blocks = @ \o UntilSave(invoice.order[1],
                                                  invoice.assets[2], loaded),
                        !.saved = SavedFile(invoice.order[1])]
    /\ UNCHANGED <<products, vendors, requests, orders, cartSession, generated,
                   now, alert, events, words>>

NextPrinting ==
    \/ PrintInvoice
    \/ WatermarkSettles
    \/ LogoSettles
    \/ QrSettles

NextInvoice ==
    \/ NextPrinting
    \/ SubmitEditedProduct
    \/ DeleteProduct

SpecInvoice == InitInvoice /\ [][NextInvoice]_vars

\* the printing alone, on a catalog that is left as it is
SpecPrinting == InitInvoice /\ [][NextPrinting]_vars

(***************************************************************************)
(* Properties.                                                             *)
(***************************************************************************)
\* what handleCreateOrder would return in the current state, for every
\* reading of the clock
CommitOutcomes ==
    {handleCreateOrder(AppState, NewId("ORD"), NewId("CUS"), now + step) :
        step \in ClockSteps}

\* some cart line asks for more than its product has in stock
StockShort ==
    \E i \in 1..Len(cartSession.items) :
        LET idx == FindProductIndex(products, cartSession.items[i].productId)
        IN  /\ idx # 0
            /\ cartSession.items[i].quantity > products[idx].stockQuantity

RECURSIVE OrderedQuantity(_, _, _)
\* the total quantity of product id among the first n items of an order
OrderedQuantity(items, id, n) ==
    IF n = 0 THEN 0
    ELSE OrderedQuantity(items, id, n - 1)
            + (IF items[n].productId = id THEN items[n].quantity ELSE 0)

\* the catalog that the commit of this order leaves, given the one before
DecrementedBy(prods, order) ==
    [i \in 1..Len(prods) |->
        [prods[i] EXCEPT !.stockQuantity =
            @ - OrderedQuantity(order.items, prods[i].id, Len(order.items))]]

\* C1: in every reachable state every product's stockQuantity is >= 0.
C1_StockNeverNegative ==
    \A i \in 1..Len(products) : products[i].stockQuantity >= 0

\* C2: a commit attempted while a cart line asks for more than its product's
\* current stock fails with a stock error, appends no order and leaves stock
\* and cart unchanged.
C2_CommitRevalidatesStock ==
    (OrdersPageUp /\ StockShort) =>
        \A out \in CommitOutcomes :
            /\ out.state = AppState
            /\ CommitAccepted(AppState) => out.alert # MsgOrderCreated

\* C3: a commit attempted with an empty customer name, or with no cart line
\* of quantity > 0, is rejected and changes neither products, orders nor the
\* cart session.
C3_InvalidCommitIsNoOp ==
    (/\ OrdersPageUp
     /\ \/ cartSession.customerName = ""
        \/ \A i \in 1..Len(cartSession.items) :
              cartSession.items[i].quantity <= 0) =>
        \A out \in CommitOutcomes :
            /\ out.alert = MsgInvalidOrder
            /\ out.state = AppState

\* a rejected commit of a named cart whose lines all have quantity 0
C3_Witness ==
    /\ alert = MsgInvalidOrder
    /\ cartSession.customerName # ""
    /\ cartSession.items # <<>>

\* C4: a successful commit lowers the stock of each product by exactly the
\* quantity the new order holds of it (nothing for a product not in the
\* order) and leaves every other field of every product unchanged.
C4_CommitDecrementsExactly ==
    [][Len(orders') = Len(orders) + 1 =>
          products' = DecrementedBy(products, Head(orders'))]_vars

\* a commit of two units of one product out of a catalog of two
C4_Witness ==
    /\ alert = MsgOrderCreated
    /\ Len(products) = 2
    /\ Len(Head(orders).items) = 1
    /\ Head(orders).items[1].quantity = 2

\* C5: the commit is one transition: the step that puts the order in the log
\* is the step that decrements the stock and clears the cart, the success
\* message is shown by no other step, and a step that changes stock without
\* appending an order is an inventory edit (it leaves the cart alone).
C5_CommitIsOneTransition ==
    [][/\ orders' # orders =>
            /\ products' = DecrementedBy(products, Head(orders'))
            /\ cartSession' = EmptySession
            /\ alert' = MsgOrderCreated
       /\ alert' = MsgOrderCreated => Len(orders') = Len(orders) + 1
       /\ (products' # products /\ orders' = orders) =>
            (cartSession' = cartSession /\ alert' = NoAlert)]_vars

\* the state right after a commit: order logged, stock lowered, cart cleared
C5_Witness ==
    /\ alert = MsgOrderCreated
    /\ Len(orders) = 1
    /\ cartSession = EmptySession
    /\ \E i \in 1..Len(products) :
          /\ products[i].id = Head(orders).items[1].productId
          /\ products[i].stockQuantity < MaxStock

\* C6: the order log is append-only: every step leaves it as it is or puts
\* one new order in front of the unchanged earlier orders, and only a
\* successful commit does the latter.
C6_OrdersAppendOnly ==
    [][\/ orders' = orders
       \/ /\ Len(orders') = Len(orders) + 1
          /\ Tail(orders') = orders
          /\ alert' = MsgOrderCreated]_vars

\* two orders in the log, the earlier one still behind the later one
C6_Witness ==
    /\ Len(orders) = 2
    /\ orders[2].date < orders[1].date
    /\ alert = MsgOrderCreated

\* C7: a step that edits or deletes a product and commits nothing leaves
\* productName, unitPrice, gstPercentage, subtotal and totalWithGst of every
\* item of every order unchanged.
C7_OrderItemsFrozen ==
    [][(products' # products /\ Len(orders') = Len(orders)) =>
          \A k \in 1..Len(orders) :
             /\ Len(orders'[k].items) = Len(orders[k].items)
             /\ \A j \in 1..Len(orders[k].items) :
                   LET old == orders[k].items[j]
                       new == orders'[k].items[j]
                   IN  /\ new.productName = old.productName
                       /\ new.unitPrice = old.unitPrice
                       /\ new.gstPercentage = old.gstPercentage
                       /\ new.subtotal = old.subtotal
                       /\ new.totalWithGst = old.totalWithGst]_vars

\* an order item whose product has since been renamed and repriced, and one
\* whose product has been deleted
C7_Witness ==
    \E k \in 1..Len(orders) :
        \E j \in 1..Len(orders[k].items) :
            LET item == orders[k].items[j]
                idx == FindProductIndex(products, item.productId)
            IN  /\ idx # 0
                /\ products[idx].name # item.productName
                /\ products[idx].sellingPrice # item.unitPrice
                /\ products[idx].gstPercentage # item.gstPercentage

\* C8: a successful commit and a confirmed clear both leave the cart session
\* equal to the empty default, and the clear changes nothing else.
C8_CartResetToEmptyDefault ==
    /\ alert = MsgOrderCreated => cartSession = EmptySession
    /\ OrdersPageUp =>
        /\ resetSession(AppState, TRUE).state =
              [AppState EXCEPT !.cartSession = EmptySession]
        /\ \A out \in CommitOutcomes :
              out.alert = MsgOrderCreated =>
                 out.state.cartSession = EmptySession

\* a cart session with lines, a customer and a discount, which a clear or a
\* commit has to empty
C8_Witness ==
    /\ OrdersPageUp
    /\ cartSession.items # <<>>
    /\ cartSession.customerName # ""
    /\ cartSession.discountPercentage # Zero
    /\ CommitAccepted(AppState)

\* C9: every order in the log has
\* grandTotal = (totalAmount - discountAmount) + totalGst.
C9_GrandTotalIdentity ==
    \A k \in 1..Len(orders) :
        orders[k].grandTotal =
            RAdd(RSub(orders[k].totalAmount, orders[k].discountAmount),
                 orders[k].totalGst)

\* an order committed with a discount and with GST
C9_Witness ==
    \E k \in 1..Len(orders) :
        /\ orders[k].discountAmount # Zero
        /\ orders[k].totalGst # Zero


RECURSIVE ReferenceSubtotal(_, _, _)
\* the sum of sellingPrice x quantity over the first n cart lines whose
\* product is in the catalog
ReferenceSubtotal(cart, prods, n) ==
    IF n = 0 THEN Zero
    ELSE LET idx == FindProductIndex(prods, cart[n].productId)
         IN  IF idx = 0 THEN ReferenceSubtotal(cart, prods, n - 1)
             ELSE RAdd(ReferenceSubtotal(cart, prods, n - 1),
                       RMul(prods[idx].sellingPrice, Num(cart[n].quantity)))

RECURSIVE ReferenceLineGst(_, _, _)
\* the sum of sellingPrice x quantity x gstPercentage / 100 over the same
\* lines
ReferenceLineGst(cart, prods, n) ==
    IF n = 0 THEN Zero
    ELSE LET idx == FindProductIndex(prods, cart[n].productId)
         IN  IF idx = 0 THEN ReferenceLineGst(cart, prods, n - 1)
             ELSE RAdd(ReferenceLineGst(cart, prods, n - 1),
                       RDiv(RMul(RMul(prods[idx].sellingPrice,
                                      Num(cart[n].quantity)),
                                 prods[idx].gstPercentage), Num(100)))

\* the reference totals of a cart, a catalog and a discount percentage
ReferenceTotals(cart, prods, discount) ==
    LET rawSubtotal == ReferenceSubtotal(cart, prods, Len(cart))
        discountAmount == RDiv(RMul(rawSubtotal, discount), Num(100))
        taxableAmount == RSub(rawSubtotal, discountAmount)
        finalGst == IF rawSubtotal = Zero THEN Zero
                    ELSE RDiv(RMul(ReferenceLineGst(cart, prods, Len(cart)),
                                   taxableAmount), rawSubtotal)
    IN  [amount |-> rawSubtotal, discountAmount |-> discountAmount,
         taxableAmount |-> taxableAmount, gst |-> finalGst,
         grandTotal |-> RAdd(taxableAmount, finalGst)]

\* the cart of the example: 3 units of a product priced 100 with 18 % GST,
\* under a discount of 10 %
ExampleCart ==
    /\ OrdersPageUp
    /\ cartSession.items = <<[productId |-> <<"PRD", 1>>, quantity |-> 3]>>
    /\ cartSession.discountPercentage = Num(10)
    /\ products # <<>>
    /\ products[1].id = <<"PRD", 1>>
    /\ products[1].sellingPrice = Num(100)
    /\ products[1].gstPercentage = Num(18)

\* C10: for every cart, catalog and discount percentage the priced totals
\* equal the reference formulas (finalGst being 0 when rawSubtotal is 0), and
\* price 100, GST 18 %, quantity 3, discount 10 % gives 300, 30, 270, 48.6
\* and 318.6.
C10_TotalsMatchReference ==
    OrdersPageUp =>
        LET t == Totals(CartItems(cartSession.items, products),
                        cartSession.discountPercentage)
        IN  /\ t = ReferenceTotals(cartSession.items, products,
                                   cartSession.discountPercentage)
            /\ ExampleCart =>
                  t = [amount |-> Num(300), discountAmount |-> Num(30),
                       taxableAmount |-> Num(270), gst |-> Rat(243, 5),
                       grandTotal |-> Rat(1593, 5)]

\* the example committed: an order of 3 units at 100 with 18 % GST and a
\* discount of 10 %, frozen with the totals 300, 30, 48.6 and 318.6
C10_Witness ==
    \E k \in 1..Len(orders) :
        /\ Len(orders[k].items) = 1
        /\ orders[k].items[1].quantity = 3
        /\ orders[k].items[1].unitPrice = Num(100)
        /\ orders[k].discountPercentage = Num(10)
        /\ orders[k].totalAmount = Num(300)
        /\ orders[k].discountAmount = Num(30)
        /\ orders[k].totalGst = Rat(243, 5)
        /\ orders[k].grandTotal = Rat(1593, 5)

\* x has at most two decimal digits
HasTwoDecimals(x) == 100 % x[2] = 0

\* C11: the grandTotal that pricing produces, and that a commit freezes onto
\* the order, is rounded to 2 decimal places: it never carries more than two
\* decimal digits.
C11_GrandTotalRounded ==
    /\ \A k \in 1..Len(orders) : HasTwoDecimals(orders[k].grandTotal)
    /\ (/\ OrdersPageUp
        /\ RGe(cartSession.discountPercentage, Zero)
        /\ RGe(Num(100), cartSession.discountPercentage)) =>
          HasTwoDecimals(Totals(CartItems(cartSession.items, products),
                                cartSession.discountPercentage).grandTotal)

\* C12: in every reachable state the discount percentage lies in 0..100, so
\* that discountAmount never exceeds rawSubtotal and taxableAmount and
\* grandTotal are never negative.
C12_DiscountWithinRange ==
    OrdersPageUp =>
        LET t == Totals(CartItems(cartSession.items, products),
                        cartSession.discountPercentage)
        IN  /\ RGe(cartSession.discountPercentage, Zero)
            /\ RGe(Num(100), cartSession.discountPercentage)
            /\ RGe(t.amount, t.discountAmount)
            /\ RGe(t.taxableAmount, Zero)
            /\ RGe(t.grandTotal, Zero)

\* C13: no two orders in the log share an invoiceNumber.
C13_InvoiceNumbersUnique ==
    \A j, k \in 1..Len(orders) :
        j # k => orders[j].invoiceNumber # orders[k].invoiceNumber

\* C14: at session start the cart session exists, and a session started
\* without persisted state has the empty default cart session.
C14_CartSessionAtStart ==
    events = 0 =>
        /\ IsDefined(cartSession)
        /\ products = <<>> => cartSession = EmptySession

\* the cart lines whose product is in the catalog
LiveLines(items, prods) ==
    SelectSeq(items, LAMBDA line : HasProduct(prods, line.productId))

\* C15: a cart line whose product is no longer in the catalog is left out of
\* pricing: the priced lines are those of the cart without such lines, in the
\* same order, and the totals are the totals of that cart.
C15_DanglingLinesExcluded ==
    OrdersPageUp =>
        LET live == LiveLines(cartSession.items, products)
            priced == CartItems(cartSession.items, products)
        IN  /\ Len(priced) = Len(live)
            /\ \A i \in 1..Len(live) :
                  /\ priced[i].productId = live[i].productId
                  /\ priced[i].quantity = live[i].quantity
            /\ priced = CartItems(live, products)
            /\ Totals(priced, cartSession.discountPercentage) =
                  ReferenceTotals(live, products,
                                  cartSession.discountPercentage)

\* a cart priced with a line of a deleted product in front of a line of a
\* product still in the catalog
C15_Witness ==
    /\ OrdersPageUp
    /\ Len(cartSession.items) = 2
    /\ ~HasProduct(products, cartSession.items[1].productId)
    /\ cartSession.items[1].quantity > 0
    /\ HasProduct(products, cartSession.items[2].productId)
    /\ cartSession.items[2].quantity > 0
    /\ Len(CartItems(cartSession.items, products)) = 1

\* some cart line of quantity > 0 refers to a product missing from the catalog
MissingProductInCart ==
    \E i \in 1..Len(cartSession.items) :
        /\ cartSession.items[i].quantity > 0
        /\ ~HasProduct(products, cartSession.items[i].productId)

\* C16: a commit attempted while a cart line refers to a product missing from
\* the catalog fails as a whole: no order is appended and no stock changes.
C16_CommitFailsOnMissingProduct ==
    (OrdersPageUp /\ MissingProductInCart) =>
        \A out \in CommitOutcomes :
            /\ out.alert # MsgOrderCreated
            /\ out.state.orders = orders
            /\ out.state.products = products

\* the cart without its lines of quantity 0
PositiveLines(items) == SelectSeq(items, LAMBDA line : line.quantity # 0)

\* what handleCreateOrder would return if the lines of quantity 0 were absent
CommitOutcomesWithoutZeroLines ==
    {handleCreateOrder(
        [AppState EXCEPT !.cartSession.items = PositiveLines(@)],
        NewId("ORD"), NewId("CUS"), now + step) : step \in ClockSteps}

\* C17: a cart line of quantity 0 is equivalent to no line: the totals are
\* those of the cart without it, a commit has the same alert, orders and
\* stock as without it (so a cart of such lines only is rejected), and no
\* order holds an item of quantity 0.
C17_ZeroQuantityIsAbsence ==
    /\ \A k \in 1..Len(orders) :
          \A j \in 1..Len(orders[k].items) : orders[k].items[j].quantity > 0
    /\ OrdersPageUp =>
          /\ Totals(CartItems(cartSession.items, products),
                    cartSession.discountPercentage) =
                Totals(CartItems(PositiveLines(cartSession.items), products),
                       cartSession.discountPercentage)
          /\ {[alert |-> out.alert, orders |-> out.state.orders,
               products |-> out.state.products] : out \in CommitOutcomes} =
             {[alert |-> out.alert, orders |-> out.state.orders,
               products |-> out.state.products] :
                  out \in CommitOutcomesWithoutZeroLines}
          /\ PositiveLines(cartSession.items) = <<>> =>
                \A out \in CommitOutcomes : out.alert = MsgInvalidOrder

\* a named cart about to be committed that holds a line of quantity 0 beside
\* a line of quantity > 0
C17_Witness ==
    /\ OrdersPageUp
    /\ CreateEnabled
    /\ CommitAccepted(AppState)
    /\ \E i, j \in 1..Len(cartSession.items) :
          /\ cartSession.items[i].quantity = 0
          /\ HasProduct(products, cartSession.items[i].productId)
          /\ cartSession.items[j].quantity > 0

\* a customer name made of whitespace only, or empty
IsBlank(name) == name \in {"", " "}

\* C18: a commit attempted with a blank customer name is rejected like one
\* with an empty name and leaves products, orders and cart unchanged.
C18_BlankNameRejected ==
    (OrdersPageUp /\ IsBlank(cartSession.customerName)) =>
        \A out \in CommitOutcomes :
            /\ out.alert = MsgInvalidOrder
            /\ out.state = AppState

\* the names of 1..19 and of the tens, for the reference transcription
ReferenceSmallNames ==
    <<"One", "Two", "Three", "Four", "Five", "Six", "Seven", "Eight", "Nine",
      "Ten", "Eleven", "Twelve", "Thirteen", "Fourteen", "Fifteen", "Sixteen",
      "Seventeen", "Eighteen", "Nineteen">>

ReferenceTensNames ==
    <<"Ten", "Twenty", "Thirty", "Forty", "Fifty", "Sixty", "Seventy",
      "Eighty", "Ninety">>

\* the words of n < 100, one word per element
ReferenceBelowHundred(n) ==
    IF n = 0 THEN <<>>
    ELSE IF n < 20 THEN <<ReferenceSmallNames[n]>>
    ELSE <<ReferenceTensNames[n \div 10]>>
            \o (IF n % 10 = 0 THEN <<>> ELSE <<ReferenceSmallNames[n % 10]>>)

\* the words of n < 1000
ReferenceBelowThousand(n) ==
    (IF n >= 100 THEN <<ReferenceSmallNames[n \div 100], "Hundred">> ELSE <<>>)
        \o ReferenceBelowHundred(n % 100)

\* the words of one group followed by the group's name, nothing for 0
ReferenceGroup(n, name) ==
    IF n = 0 THEN <<>> ELSE ReferenceBelowThousand(n) \o <<name>>

\* the Indian-grouping transcription of n, one word per element
ReferenceWords(n) ==
    LET all == ReferenceGroup(n \div 10000000, "Crore")
                 \o ReferenceGroup((n \div 100000) % 100, "Lakh")
                 \o ReferenceGroup((n \div 1000) % 100, "Thousand")
                 \o ReferenceBelowThousand(n % 1000)
    IN  IF all = <<>> THEN <<"Zero">> ELSE all

RECURSIVE JoinWords(_, _)
\* the first n words, separated by single spaces
JoinWords(ws, n) ==
    IF n = 0 THEN ""
    ELSE IF n = 1 THEN ws[1]
    ELSE JoinWords(ws, n - 1) \o " " \o ws[n]

\* the transcription of n as one text
ReferenceText(n) == JoinWords(ReferenceWords(n), Len(ReferenceWords(n)))

\* the paise of an amount that has a two-digit paise part
PaiseOf(amount) == amount.frac[1] * (100 \div amount.frac[2])

\* C19: for every amount from 0 to 99,99,99,999 rupees with a two-digit paise
\* part, numberToWords gives 'Rupees <W>', then ' and <P> Paise' exactly when
\* the paise are not 0, then ' Only', <W> and <P> being the Indian-grouping
\* transcriptions of the rupees and the paise; 1234567.89 gives 'Rupees Twelve
\* Lakh Thirty Four Thousand Five Hundred Sixty Seven and Eighty Nine Paise
\* Only'.
C19_AmountInWords ==
    (words.text # "" /\ HasTwoDecimals(words.amount.frac)) =>
        /\ words.text =
              "Rupees " \o ReferenceText(words.amount.whole)
                 \o (IF PaiseOf(words.amount) # 0
                     THEN " and " \o ReferenceText(PaiseOf(words.amount))
                             \o " Paise"
                     ELSE "")
                 \o " Only"
        /\ words.amount = [whole |-> 1234567, frac |-> Rat(89, 100)] =>
              words.text = "Rupees Twelve Lakh Thirty Four Thousand Five Hundred Sixty Seven and Eighty Nine Paise Only"

\* 1234567.89 put in words
C19_Witness ==
    /\ words.amount = [whole |-> 1234567, frac |-> Rat(89, 100)]
    /\ words.text = "Rupees Twelve Lakh Thirty Four Thousand Five Hundred Sixty Seven and Eighty Nine Paise Only"

\* C20: numberToWords(0) is 'Rupees Zero Only', and whenever the rupee part
\* is 0 the rupee words are 'Zero', also when the paise are not 0.
C20_ZeroRupees ==
    (words.text # "" /\ words.amount.whole = 0) =>
        LET paise == RoundedPaise(words.amount.frac)
        IN  /\ words.amount.frac = Zero => words.text = "Rupees Zero Only"
            /\ paise # 0 =>
                  words.text = "Rupees Zero and " \o ReferenceText(paise)
                                  \o " Paise Only"

\* half a rupee put in words
C20_Witness ==
    /\ words.amount = [whole |-> 0, frac |-> Rat(1, 2)]
    /\ words.text = "Rupees Zero and Fifty Paise Only"

\* the texts numberToWords may give for an amount whose paise component is
\* a two-digit value: the rupees as they are, or one more when the fraction
\* rounds up to a whole rupee
TwoDigitPaiseTexts(amount) ==
    {"Rupees " \o ReferenceText(rupees)
        \o (IF paise # 0 THEN " and " \o ReferenceText(paise) \o " Paise"
            ELSE "")
        \o " Only" :
        rupees \in {amount.whole, amount.whole + 1}, paise \in 0..99}

\* C21: for every non-negative amount, also one with more than two decimal
\* digits, the paise that numberToWords transcribes are a value in 0..99; a
\* fraction that rounds up to a whole rupee is never rendered as 100 paise.
C21_PaiseTwoDigits ==
    words.text # "" =>
        /\ RoundedPaise(words.amount.frac) \in 0..99
        /\ words.text \in TwoDigitPaiseTexts(words.amount)

\* the place of a section in the order "issuer header (with optional logo),
\* optional watermark, invoice number and date, bill-to, line-item table,
\* summary, amount in words, optional payment QR, terms, signature lines,
\* closing disclaimer"; 0 for what is drawn besides these
ListedPlace(section) ==
    CASE section \in {"header", "logo"} -> 1
      [] section = "watermark" -> 2
      [] section = "invoiceMeta" -> 3
      [] section = "billTo" -> 4
      [] section = "table" -> 5
      [] section = "summary" -> 6
      [] section = "amountInWords" -> 7
      [] section = "qr" -> 8
      [] section = "terms" -> 9
      [] section = "signatures" -> 10
      [] section = "disclaimer" -> 11
      [] OTHER -> 0

\* the place of a section in the order "optional watermark, issuer header,
\* optional logo, invoice number and date, ..."
DrawnPlace(section) ==
    CASE section = "watermark" -> 1
      [] section = "header" -> 2
      [] section = "logo" -> 3
      [] OTHER -> ListedPlace(section) + 1

\* the positions of the document that hold a listed section
ListedBlocks == {i \in 1..Len(invoice.blocks) :
                    ListedPlace(invoice.blocks[i].section) # 0}

\* C22 as stated: generatePDF emits the sections in the order issuer header
\* (with optional logo), optional watermark, invoice number and date, bill-to,
\* line-item table, summary, amount in words, optional payment QR, terms,
\* signature lines and closing disclaimer; no section is emitted before one
\* that precedes it in this list, whichever assets load.
C22_ListedOrder ==
    \A i, j \in ListedBlocks :
        i < j => ListedPlace(invoice.blocks[i].section)
                    <= ListedPlace(invoice.blocks[j].section)

\* C22: generatePDF emits the sections in the order optional watermark,
\* issuer header, optional logo, invoice number and date, bill-to, line-item
\* table, summary, amount in words, optional payment QR, terms, signature
\* lines and closing disclaimer; at every moment of the rendering no section
\* has been emitted before one that precedes it in this list, whichever
\* assets load.
C22_DrawnOrder ==
    \A i, j \in ListedBlocks :
        i < j => DrawnPlace(invoice.blocks[i].section)
                    <= DrawnPlace(invoice.blocks[j].section)

\* an invoice saved with the watermark, the logo and the QR code all loaded
C22_Witness ==
    /\ invoice.pc = "saved"
    /\ invoice.assets = <<TRUE, TRUE, TRUE>>
    /\ {invoice.blocks[i].section : i \in ListedBlocks}
          = {"watermark", "header", "logo", "invoiceMeta", "billTo", "table",
             "summary", "amountInWords", "qr", "terms", "signatures",
             "disclaimer"}

\* the sections and texts of a document, in order, without the positions
Content(blocks) ==
    [i \in 1..Len(blocks) |-> <<blocks[i].section, blocks[i].text>>]

\* the sections of the assets that failed to load
FailedSections(assets) ==
    {section \in {"watermark", "logo", "qr"} :
        \/ section = "watermark" /\ ~assets[1]
        \/ section = "logo" /\ ~assets[2]
        \/ section = "qr" /\ ~assets[3]}

\* the document with all assets loaded, without the blocks of those that
\* failed
WithoutFailed(order, assets) ==
    LET Kept(block) == block.section \notin FailedSections(assets)
    IN  SelectSeq(generatePDF(order, <<TRUE, TRUE, TRUE>>), Kept)

RequiredSections ==
    {"header", "invoiceMeta", "billTo", "table", "summary", "amountInWords",
     "terms", "signatures", "disclaimer"}

AssetOutcomes == {<<w, l, q>> : w \in BOOLEAN, l \in BOOLEAN, q \in BOOLEAN}

\* C23: for every combination of load failures of the logo, the watermark and
\* the QR code, generatePDF completes, emits every section that is not
\* optional and saves the document; a failed asset removes only its own image
\* and caption: once an invoice is started, each combination of outcomes gives
\* a document with every required section whose content is that of the full
\* document less the blocks of the failed assets, and the invoice saved is
\* that document for the outcomes that happened, under the invoice number.
C23_AssetFailuresDegrade ==
    /\ invoice.pc = "watermark" =>
          \A assets \in AssetOutcomes :
              LET document == generatePDF(invoice.order[1], assets)
              IN  /\ RequiredSections
                        \subseteq {document[i].section :
                                      i \in 1..Len(document)}
                  /\ Content(document)
                        = Content(WithoutFailed(invoice.order[1], assets))
    /\ invoice.pc \in {"logo", "qr"} => invoice.saved = ""
    /\ invoice.pc = "saved" =>
          /\ invoice.saved = SavedFile(invoice.order[1])
          /\ invoice.blocks = generatePDF(invoice.order[1], invoice.assets)

\* an invoice saved after all three assets failed to load
C23_Witness ==
    /\ invoice.pc = "saved"
    /\ invoice.assets = <<FALSE, FALSE, FALSE>>
    /\ invoice.saved # ""

\* the bill-to blocks of the invoice in the making
BillToBlocks ==
    LET IsBillTo(block) == block.section = "billTo"
    IN  SelectSeq(invoice.blocks, IsBillTo)

\* the labels of the optional customer fields of an order that are not empty,
\* in the order phone, address, GSTIN
ExpectedLabels(order) ==
    (IF order.customerPhone # "" THEN <<"Phone: ">> ELSE <<>>)
        \o (IF order.customerAddress # "" THEN <<"Address: ">> ELSE <<>>)
        \o (IF order.customerGstin # "" THEN <<"GSTIN: ">> ELSE <<>>)

\* the value printed after a label
ExpectedValue(order, label) ==
    CASE label = "Phone: " -> <<order.customerPhone>>
      [] label = "Address: " -> SplitTextToSize(order.customerAddress)
      [] label = "GSTIN: " -> <<order.customerGstin>>

\* the height a bill-to line takes: 4.5 for each line of the wrapped address,
\* 5 for a phone or a GSTIN
LineHeight(block) ==
    IF block.text[1] = "Address: "
    THEN RMul(Num(Len(block.text) - 1), Rat(9, 2))
    ELSE Num(5)

\* C24: the bill-to block has a phone, address or GSTIN line exactly when the
\* order's field is present and not empty; a missing field leaves no label
\* and no blank line: the lines that follow move up, each one directly below
\* the one before it, the first at 13 below the heading.
C24_BillToOmitsEmptyFields ==
    invoice.pc \in {"qr", "saved"} =>
        LET order == invoice.order[1]
            lines == BillToBlocks
            labels == ExpectedLabels(order)
        IN  /\ Len(lines) = 2 + Len(labels)
            /\ lines[1].text = <<"BILL TO:">>
            /\ lines[2].text = <<ToUpperCase(order.customerName)>>
            /\ \A k \in 1..Len(labels) :
                  /\ lines[2 + k].text
                        = <<labels[k]>> \o ExpectedValue(order, labels[k])
                  /\ lines[2 + k].y
                        = IF k = 1 THEN RAdd(lines[1].y, Num(13))
                          ELSE RAdd(lines[1 + k].y, LineHeight(lines[1 + k]))

\* an invoice without a phone, with an address wrapped into two lines and a
\* GSTIN: the address is the first line below the name, the GSTIN is 9 below
C24_Witness ==
    /\ invoice.pc = "saved"
    /\ invoice.order[1].customerPhone = ""
    /\ invoice.order[1].customerAddress = LongAddress
    /\ invoice.order[1].customerGstin # ""
    /\ Len(BillToBlocks) = 4
    /\ BillToBlocks[4].y = RAdd(BillToBlocks[3].y, Num(9))

\* the invoice printed before this one was of the same order, with the same
\* assets loaded
PrintedAgain(inv) ==
    /\ inv.pc = "saved"
    /\ inv.previous # <<>>
    /\ inv.previous[1].order = inv.order
    /\ inv.previous[1].assets = inv.assets

\* C25: rendering is pure and repeatable: generatePDF never changes the
\* products, the orders or the cart, and rendering the same order twice with
\* the same asset outcomes gives the same sequence of sections with the same
\* content, whatever happened to the catalog in between.
C25_RenderingPure ==
    [][/\ invoice' # invoice => UNCHANGED <<products, orders, cartSession>>
       /\ PrintedAgain(invoice') =>
             /\ invoice'.blocks = invoice'.previous[1].blocks
             /\ invoice'.saved = invoice'.previous[1].saved]_vars

\* an order printed a second time with the same assets after one of its
\* products was renamed or deleted
C25_Witness ==
    /\ PrintedAgain(invoice)
    /\ \E i \in 1..Len(invoice.order[1].items) :
          LET item == invoice.order[1].items[i]
          IN  \/ ~HasProduct(products, item.productId)
              \/ products[FindProductIndex(products, item.productId)].name
                    # item.productName

RECURSIVE ItemsSubtotal(_, _)
\* the sum of the subtotals of the first n items of an order
ItemsSubtotal(items, n) ==
    IF n = 0 THEN Zero
    ELSE RAdd(ItemsSubtotal(items, n - 1), items[n].subtotal)

\* the order's totalAmount is the sum of the subtotals of its own items, and
\* each item's subtotal is its unit price times its quantity
TotalAmountIsItemsSum(order) ==
    /\ order.totalAmount = ItemsSubtotal(order.items, Len(order.items))
    /\ \A i \in 1..Len(order.items) :
          order.items[i].subtotal
              = RMul(order.items[i].unitPrice, Num(order.items[i].quantity))

\* C26: every committed order's totalAmount equals the sum of the subtotals
\* of its own items, also when the cart held lines of quantity 0 or lines of
\* deleted products at the commit, and when the catalog changed between the
\* add and the commit: this holds of every order in the list and of the order
\* a commit would make in the current state.
C26_TotalAmountMatchesItems ==
    /\ \A k \in 1..Len(orders) : TotalAmountIsItemsSum(orders[k])
    /\ OrdersPageUp =>
          \A outcome \in CommitOutcomes :
              \A k \in 1..Len(outcome.state.orders) :
                  TotalAmountIsItemsSum(outcome.state.orders[k])

\* a commit about to be accepted while the cart holds a line of a product
\* deleted after it was added, beside a line of a product in the catalog
C26_Witness ==
    /\ OrdersPageUp
    /\ CreateEnabled
    /\ CommitAccepted(AppState)
    /\ Len(cartSession.items) = 2
    /\ ~HasProduct(products, cartSession.items[1].productId)
    /\ cartSession.items[1].quantity > 0
    /\ HasProduct(products, cartSession.items[2].productId)
    /\ cartSession.items[2].quantity > 0
    /\ \E outcome \in CommitOutcomes :
          Len(outcome.state.orders[1].items) = 1

\* C27: when the catalog is changed by commits only (no product is created,
\* edited or deleted), every cart line's quantity is between 0 and the stock
\* of its product, so every accepted commit leaves every stock >= 0.
C27_CartWithinStock ==
    /\ \A i \in 1..Len(cartSession.items) :
          LET line == cartSession.items[i]
              idx == FindProductIndex(products, line.productId)
          IN  /\ idx # 0
              /\ line.quantity \in 0..products[idx].stockQuantity
    /\ \A i \in 1..Len(products) : products[i].stockQuantity >= 0
    /\ \A outcome \in CommitOutcomes :
          \A i \in 1..Len(outcome.state.products) :
              outcome.state.products[i].stockQuantity >= 0

\* after a commit that took part of a product's stock, a cart line asks for
\* all that is left of it
C27_Witness ==
    /\ Len(orders) = 1
    /\ \E i \in 1..Len(cartSession.items) :
          LET line == cartSession.items[i]
              idx == FindProductIndex(products, line.productId)
          IN  /\ idx # 0
              /\ line.quantity = products[idx].stockQuantity
              /\ line.quantity > 0
              /\ \E j \in 1..Len(orders[1].items) :
                    orders[1].items[j].productId = line.productId

\* the position of product id among the cart lines, 0 when it has none
LineOf(items, id) ==
    IF \E i \in 1..Len(items) : items[i].productId = id
    THEN CHOOSE i \in 1..Len(items) : items[i].productId = id
    ELSE 0

\* no two cart lines are of the same product
OneLinePerProduct(items) ==
    \A i, j \in 1..Len(items) :
        items[i].productId = items[j].productId => i = j

\* from the lines before to the lines after, the lines that stay keep their
\* order and a line that is new comes after all of them
OrderKept(before, after) ==
    \A i, j \in 1..Len(after) :
        LET wasI == LineOf(before, after[i].productId)
            wasJ == LineOf(before, after[j].productId)
        IN  /\ (wasI # 0 /\ wasJ # 0 /\ wasI < wasJ) => i < j
            /\ (wasI # 0 /\ wasJ = 0) => i < j

\* an add that is accepted raises the quantity of the product's line where it
\* stands, or appends a line when the product has none
AddsInPlaceOrAppends ==
    \A id \in ProductIds, text \in QtyTexts :
        LET items == cartSession.items
            added == handleAddToCart(AppState, id, text).state.cartSession.items
            at == LineOf(items, id)
        IN  added # items =>
                IF at # 0
                THEN /\ Len(added) = Len(items)
                     /\ added[at].quantity > items[at].quantity
                     /\ \A k \in 1..Len(items) :
                           /\ added[k].productId = items[k].productId
                           /\ k # at => added[k] = items[k]
                ELSE /\ Len(added) = Len(items) + 1
                     /\ SubSeq(added, 1, Len(items)) = items
                     /\ added[Len(added)].productId = id

\* C28: the cart holds at most one line per productId; adding a product that
\* has a line raises that line's quantity in place, adding a new product
\* appends a line at the end; no operation duplicates or reorders the lines.
C28_OneLinePerProduct ==
    [][(IsDefined(cartSession) /\ IsDefined(cartSession')) =>
          /\ OneLinePerProduct(cartSession'.items)
          /\ OrderKept(cartSession.items, cartSession'.items)
          /\ AddsInPlaceOrAppends]_vars

\* a cart of two lines whose first line holds two units
C28_Witness ==
    /\ OrdersPageUp
    /\ Len(cartSession.items) = 2
    /\ cartSession.items[1].quantity = 2
    /\ cartSession.items[2].quantity >= 1
    /\ \E text \in QtyTexts :
          LET added == handleAddToCart(AppState, cartSession.items[1].productId,
                                       text).state.cartSession.items
          IN  added = cartSession.items

\* the quantity q an add asks for, by the text of the quantity input: an
\* empty input counts as 1, a whole number as itself, and of "1.5" the
\* handler reads the leading 1
RequestedQuantity(text) ==
    CASE text = <<>> -> 1
      [] text = <<"1", ".", "5">> -> 1
      [] text = <<"-", "1">> -> -1
      [] OTHER -> CHOOSE k \in 0..(MaxStock + 1) : text = DigitText(k)

\* the quantity of product id already in the cart
QuantityInCart(items, id) ==
    IF LineOf(items, id) = 0 THEN 0 ELSE items[LineOf(items, id)].quantity

AllowedTransitions ==
    {<<"Pending", "Approved">>, <<"Pending", "Rejected">>,
     <<"Approved", "Delivered">>}

\* a step that changes the status of request i along an allowed transition
\* and nothing else of it
StatusStep(i) ==
    /\ <<requests[i].status, requests'[i].status>> \in AllowedTransitions
    /\ requests'[i] = [requests[i] EXCEPT !.status = requests'[i].status]

\* C30: through the actions the request list offers, a vendor request's
\* status follows only the transitions Pending -> Approved, Pending ->
\* Rejected and Approved -> Delivered; Rejected and Delivered are terminal,
\* every new request starts Pending, and a status change alters only that
\* request: all other requests, the products, the orders and the cart are
\* unchanged.
C30_RequestStatusMachine ==
    [][\/ requests' = requests
       \/ /\ Len(requests') = Len(requests) + 1
          /\ Tail(requests') = requests
          /\ requests'[1].status = "Pending"
       \/ /\ Len(requests') = Len(requests)
          /\ \E i \in 1..Len(requests) :
                /\ StatusStep(i)
                /\ \A j \in 1..Len(requests) : j # i => requests'[j] = requests[j]
          /\ UNCHANGED <<products, orders, cartSession>>]_vars

\* two requests, one delivered and one still pending
C30_Witness ==
    /\ Len(requests) = 2
    /\ \E i, j \in 1..2 :
          /\ requests[i].status = "Delivered"
          /\ requests[j].status = "Pending"

=============================================================================
